---- MODULE Spec2Model ----
(***************************************************************************)
(* A model of cheeky-jit: the bit-field packer, the AArch64 encoder, the   *)
(* assembler facade, the lowering pass and the branch linker of            *)
(* Jit::compile, the reference interpreter run_interpreted, and the        *)
(* machine that executes the generated code.                               *)
(*                                                                         *)
(* Numbers.  TLC's integers are 32 bits wide, so                           *)
(*   - a u32 (an instruction word) is <<hi, lo>>, its two 16-bit halves;   *)
(*   - a u64 (a Value, an X register) is a sequence of four 16-bit limbs,  *)
(*     limb 1 the least significant (limb hw+1 is halfword hw of MOVK);    *)
(*   - a usize that stays below 2^31 (offsets, field values, indices) is   *)
(*     an integer.                                                         *)
(* Rust checks integer overflow in a debug build and wraps in a release    *)
(* build; overflow_checks says which build runs.                           *)
(***************************************************************************)
EXTENDS Integers, Sequences, FiniteSets, TLC

VARIABLES
    overflow_checks,  \* TRUE: debug build (overflow panics); FALSE: release
    call,             \* the pure function applied by a unit specification
    program,          \* Program.blocks: instructions, jumps_to_here, offset
    output,           \* Jit.assembler.output, the code buffer
    block_offsets,    \* Jit.block_offsets
    emitted,          \* buffer length after each emit32 of the last step
    pc,               \* where the pipeline stands
    vm,               \* the initial VM state both runs start from
    machine,          \* the thread running the generated code on a copy of vm
    interp            \* run_interpreted on a copy of vm

\* ------------------------------------------------------------------ bounds
MaxFields == 4
MaxIters == 2
MaxSteps == 40

\* ------------------------------------------------------------- arithmetic
Pow2Table ==
    <<1, 2, 4, 8, 16, 32, 64, 128, 256, 512, 1024, 2048, 4096, 8192, 16384,
      32768, 65536, 131072, 262144, 524288, 1048576, 2097152, 4194304,
      8388608, 16777216, 33554432, 67108864, 134217728, 268435456,
      536870912, 1073741824>>
Pow2(n) == Pow2Table[n + 1]

Min(a, b) == IF a < b THEN a ELSE b
Max(a, b) == IF a > b THEN a ELSE b

\* A u32 is <<hi, lo>>: its upper and its lower 16 bits.
U32(hi, lo) == <<hi, lo>>
Zero32 == U32(0, 0)

\* (v as u32) for a usize v below 2^31
ToU32(v) == U32(v \div 65536, v % 65536)

\* w << s, for 0 <= s < 32, bits shifted out at the top are lost
Shl32(w, s) ==
    IF s >= 16
    THEN U32((w[2] * Pow2(s - 16)) % 65536, 0)
    ELSE U32(((w[1] * Pow2(s)) + ((w[2] * Pow2(s)) \div 65536)) % 65536,
             (w[2] * Pow2(s)) % 65536)

\* (1 << s) - 1 as a u32, for 0 <= s < 32
Mask32(s) == IF s >= 16 THEN U32(Pow2(s - 16) - 1, 65535) ELSE U32(0, Pow2(s) - 1)

\* a & m for a mask m = 2^k - 1 (each half of m is itself 2^j - 1)
And32(a, m) == U32(a[1] % (m[1] + 1), a[2] % (m[2] + 1))

Add32(a, b) ==
    U32((a[1] + b[1] + ((a[2] + b[2]) \div 65536)) % 65536, (a[2] + b[2]) % 65536)
Add32Overflows(a, b) == a[1] + b[1] + ((a[2] + b[2]) \div 65536) >= 65536

\* usize >> s for a usize below 2^31
ShrUsize(v, s) == IF s >= 31 THEN 0 ELSE v \div Pow2(s)

\* Bits h..l (31 >= h >= l >= 0, at most 30 of them) of a u32, as an integer.
Bits(w, h, l) ==
    LET lw == IF l <= 15 THEN Min(h, 15) - l + 1 ELSE 0
        loPart == IF l <= 15 THEN (w[2] % Pow2(Min(h, 15) + 1)) \div Pow2(l) ELSE 0
        hiPart == IF h >= 16 THEN (w[1] % Pow2(h - 15)) \div Pow2(Max(l, 16) - 16) ELSE 0
    IN  hiPart * Pow2(lw) + loPart

\* The bits of a u32 as a sequence, most significant first; the low n bits of
\* an integer likewise.
IntBits(v, n) == [i \in 1..n |-> IF n - i >= 31 THEN 0 ELSE (v \div Pow2(n - i)) % 2]
WordBits(w) == IntBits(w[1], 16) \o IntBits(w[2], 16)

\* --------------------------------------------------------- BitwiseWriter
BitIndex(value, bits) == [value |-> value, bits |-> bits]

Ok(v) == [status |-> "ok", value |-> v]
Err == [status |-> "err", value |-> Zero32]
Panic == [status |-> "panic", value |-> Zero32]

\* One consumed field: Some(bits) of the generator (assembler.rs 598-609).
\* The result is the new (bit_position, value), or a panic.
write_sum(checks, shift, bit_position, shifted, low) ==
    IF checks /\ Add32Overflows(shifted, low)
    THEN [panic |-> TRUE, bit_position |-> bit_position, value |-> shifted]
    ELSE [panic |-> FALSE, bit_position |-> bit_position + shift,
          value |-> Add32(shifted, low)]

write_field(checks, bits, bit_position, value) ==
    IF checks /\ bits.bits >= 32
    THEN [panic |-> TRUE, bit_position |-> bit_position, value |-> value]
    ELSE IF ShrUsize(bits.value, bits.bits % 64) # 0
    THEN [panic |-> TRUE, bit_position |-> bit_position, value |-> value]
    ELSE write_sum(checks, bits.bits, bit_position, Shl32(value, bits.bits % 32),
                   And32(ToU32(bits.value), Mask32(bits.bits % 32)))

\* match bit_position { 32 => Ok(value), _ => Err(()) }
write_end(bit_position, value) == IF bit_position = 32 THEN Ok(value) ELSE Err

RECURSIVE write_loop(_, _, _, _, _)
\* after Some(bits) was consumed with result f: index += 1 and the loop test
write_next(generator, checks, index, more_bits, f) ==
    IF f.panic THEN Panic
    ELSE IF more_bits
    THEN write_loop(generator, checks, index + 1, f.bit_position, f.value)
    ELSE write_end(f.bit_position, f.value)

\* One iteration of `while more_bits` with the loop condition true; here
\* more_bits is bit_position < 32
write_loop(generator, checks, index, bit_position, value) ==
    IF index < Len(generator)
    THEN write_next(generator, checks, index, bit_position < 32,
                    write_field(checks, generator[index + 1], bit_position, value))
    ELSE IF bit_position < 32 THEN Err
    ELSE write_end(bit_position, value)

\* BitwiseWriter::write; the generator is the list of the fields it yields
\* before its first None.
write(generator, checks) == write_loop(generator, checks, 0, 0, Zero32)

\* ------------------------------------------------------------ u64 values
\* A u64 is <<l0, l1, l2, l3>>, halfword hw in limb hw + 1.
V64(l0, l1, l2, l3) == <<l0, l1, l2, l3>>
Zero64 == V64(0, 0, 0, 0)
One64 == V64(1, 0, 0, 0)
Max64 == V64(65535, 65535, 65535, 65535)
Two64 == V64(2, 0, 0, 0)
Top64 == V64(0, 0, 0, 32768)
Beef64 == V64(\h1234, \hCAFE, \hBEEF, \hDEAD)
FromInt(n) == V64(n % 65536, n \div 65536, 0, 0)

\* imm >> 16
Shr16(imm) == V64(imm[2], imm[3], imm[4], 0)

\* (imm as usize) as a field value: the exact value when it is below 2^31,
\* and otherwise 2^31 - 1, which overflows every field it is packed into
UsizeOf(imm) ==
    IF imm[3] = 0 /\ imm[4] = 0 /\ imm[2] < 32768
    THEN imm[1] + 65536 * imm[2] ELSE 2147483647

\* ------------------------------------------------------------- Assembler
\* Reg (assembler.rs 5-15)
GPR0 == 4
GPR1 == 5
VmStructBase == 0
RegisterArrayBase == 1
LocalsArrayBase == 2
RET == 30
SP == 31

\* Operand (assembler.rs 22-26)
OperandReg(r) == [kind |-> "Reg", reg |-> r]
OperandImm64(imm) == [kind |-> "Imm64", imm |-> imm]
OperandMem(base, offset) == [kind |-> "Mem64BaseAndOffset", reg |-> base, offset |-> offset]

\* The state the assembler works on:
\*   output    Assembler.output, the code buffer, a sequence of bytes
\*   blocks    the Program's blocks (shared with the BlockTargets)
\*   panicked  a panic unwound the compilation
\*   emitted   the buffer length after each emit32 of the current step
Asm(out, blocks) ==
    [output |-> out, blocks |-> blocks, panicked |-> FALSE, emitted |-> <<>>]

\* the four bytes of a u32, least significant first
LeBytes(value) == <<value[2] % 256, value[2] \div 256, value[1] % 256, value[1] \div 256>>

\* a variant that drops the most significant byte
emit32_three_bytes(m, value) ==
    IF m.panicked THEN m
    ELSE [m EXCEPT !.output = @ \o SubSeq(LeBytes(value), 1, 3),
                   !.emitted = Append(@, Len(m.output) + 3)]

\* a variant that puts the word in front of the buffer
emit32_front(m, value) ==
    IF m.panicked THEN m
    ELSE [m EXCEPT !.output = LeBytes(value) \o @,
                   !.emitted = Append(@, Len(m.output) + 4)]

\* Arm64Writer::emit32
emit32(m, value) ==
    IF m.panicked THEN m
    ELSE [m EXCEPT !.output = @ \o LeBytes(value),
                   !.emitted = Append(@, Len(m.output) + 4)]

\* Arm64Writer::emit32_gen followed by its caller's unwrap(): an Err, like a
\* panic inside write, panics
emit32_unwrap(m, r) ==
    IF m.panicked THEN m
    ELSE IF r.status = "ok" THEN emit32(m, r.value)
    ELSE [m EXCEPT !.panicked = TRUE]

emit32_gen(m, generator) == emit32_unwrap(m, write(generator, overflow_checks))

emit_mov_reg(m, dst, src) ==
    emit32_gen(m, <<BitIndex(\b10101010000, 11), BitIndex(src, 5),
                    BitIndex(\b00000011111, 11), BitIndex(dst, 5)>>)

emit_movz(m, dst, imm) ==
    emit32_gen(m, <<BitIndex(\b11010010100, 11), BitIndex(imm[1], 16), BitIndex(dst, 5)>>)

\* a variant that names halfword 0 in every MOVK
emit_movk_hw0(m, dst, hw, imm) ==
    emit32_gen(m, <<BitIndex(\b111100101, 9), BitIndex(0, 2),
                    BitIndex(imm[1], 16), BitIndex(dst, 5)>>)

emit_movk(m, dst, hw, imm) ==
    emit32_gen(m, <<BitIndex(\b111100101, 9), BitIndex(hw, 2),
                    BitIndex(imm[1], 16), BitIndex(dst, 5)>>)

\* a variant that emits at most one MOVK
mov_imm_once(m, dst, imm, hw) ==
    IF imm # Zero64 /\ hw < 4 THEN emit_movk(m, dst, hw, imm) ELSE m

RECURSIVE mov_imm_loop(_, _, _, _)
\* while imm != 0 && hw < 4 (assembler.rs 249-270)
mov_imm_loop(m, dst, imm, hw) ==
    IF imm # Zero64 /\ hw < 4
    THEN mov_imm_loop(emit_movk(m, dst, hw, imm), dst, Shr16(imm), hw + 1)
    ELSE m

emit_mov_imm(m, dst, imm) == mov_imm_loop(emit_movz(m, dst, imm), dst, Shr16(imm), 1)

\* a variant that keeps the low 12 bits of the offset
emit_str_truncated(m, dst, dst_offset, src) ==
    emit32_gen(m, <<BitIndex(\b1111100100, 10), BitIndex(dst_offset % 4096, 12),
                    BitIndex(dst, 5), BitIndex(src, 5)>>)

emit_str(m, dst, dst_offset, src) ==
    emit32_gen(m, <<BitIndex(\b1111100100, 10), BitIndex(dst_offset, 12),
                    BitIndex(dst, 5), BitIndex(src, 5)>>)

\* a variant that puts the base register in Rt and the target in Rn
emit_ldr_swapped(m, dst, src, src_offset) ==
    emit32_gen(m, <<BitIndex(\b1111100101, 10), BitIndex(src_offset, 12),
                    BitIndex(dst, 5), BitIndex(src, 5)>>)

emit_ldr(m, dst, src, src_offset) ==
    emit32_gen(m, <<BitIndex(\b1111100101, 10), BitIndex(src_offset, 12),
                    BitIndex(src, 5), BitIndex(dst, 5)>>)

emit_cset(m, dst) ==
    emit32_gen(m, <<BitIndex(\b1001101010011111, 16), BitIndex(\b1101, 4),
                    BitIndex(\b0111111, 7), BitIndex(dst, 5)>>)

emit_add(m, dst, src, value) ==
    emit32_gen(m, <<BitIndex(\b1001000100, 10), BitIndex(value, 12),
                    BitIndex(src, 5), BitIndex(dst, 5)>>)

emit_sub(m, dst, src, value) ==
    emit32_gen(m, <<BitIndex(\b1101000100, 10), BitIndex(value, 12),
                    BitIndex(src, 5), BitIndex(dst, 5)>>)

emit_push(m, src) == emit_str(emit_sub(m, SP, SP, 64), SP, 1, src)

\* Option<Reg>
None == <<>>
Some(r) == <<r>>

emit_pop(m, dst) ==
    emit_add(IF dst # None THEN emit_ldr(m, dst[1], SP, 1) ELSE m, SP, SP, 64)

emit_branch(m, addr_offset) ==
    emit32_gen(m, <<BitIndex(\b000101, 6), BitIndex(addr_offset, 26)>>)

emit_branch_with_link(m, target) ==
    emit32_gen(m, <<BitIndex(\b1101011000111111000000, 22), BitIndex(target, 5),
                    BitIndex(0, 5)>>)

emit_branch_eq(m, imm19) ==
    emit32_gen(m, <<BitIndex(\b01010100, 8), BitIndex(imm19, 19), BitIndex(0, 5)>>)

emit_cmp(m, lhs, rhs) ==
    CASE rhs.kind = "Reg" ->
           emit32_gen(m, <<BitIndex(\b11101011000, 11), BitIndex(rhs.reg, 5),
                           BitIndex(0, 6), BitIndex(lhs, 5), BitIndex(\b11111, 5)>>)
      [] rhs.kind = "Imm64" ->
           emit32_gen(m, <<BitIndex(\b1111000100, 10), BitIndex(UsizeOf(rhs.imm), 12),
                           BitIndex(lhs, 5), BitIndex(\b11111, 5)>>)
      [] OTHER -> [m EXCEPT !.panicked = TRUE]

\* a variant that adds 2
emit_incr_by_two(m, dst) ==
    emit32_gen(m, <<BitIndex(\b1001000100, 10), BitIndex(2, 12),
                    BitIndex(dst, 5), BitIndex(dst, 5)>>)

emit_incr(m, dst) ==
    emit32_gen(m, <<BitIndex(\b1001000100, 10), BitIndex(1, 12),
                    BitIndex(dst, 5), BitIndex(dst, 5)>>)

emit_ret(m) ==
    emit32_gen(m, <<BitIndex(\b1101011001011111000000, 22), BitIndex(\b11110, 5),
                    BitIndex(0, 5)>>)

emit_brk(m, imm16) ==
    emit32_gen(m, <<BitIndex(\b11010100001, 11), BitIndex(imm16, 16), BitIndex(0, 5)>>)

NopWord == U32(\hD503, \h201F)
emit_nop(m) == emit32(m, NopWord)

\* Assembler::mov
mov(m, dst, src) ==
    CASE dst.kind = "Reg" /\ src.kind = "Reg" -> emit_mov_reg(m, dst.reg, src.reg)
      [] dst.kind = "Reg" /\ src.kind = "Imm64" -> emit_mov_imm(m, dst.reg, src.imm)
      [] dst.kind = "Mem64BaseAndOffset" /\ src.kind = "Reg" ->
           emit_str(m, dst.reg, dst.offset, src.reg)
      [] dst.kind = "Reg" /\ src.kind = "Mem64BaseAndOffset" ->
           IF ShrUsize(src.offset, 12) # 0
           THEN [m EXCEPT !.panicked = TRUE]
           ELSE emit_ldr(m, dst.reg, src.reg, src.offset)
      [] OTHER -> [m EXCEPT !.panicked = TRUE]

load_immediate64(m, dst, imm) == mov(m, OperandReg(dst), OperandImm64(imm))
store_vm_register(m, dst, src) == mov(m, OperandMem(RegisterArrayBase, dst), OperandReg(src))
\* a variant that emits no load and leaves dst as the code before left it
load_vm_register_nop(m, dst, src) == emit_nop(m)

load_vm_register(m, dst, src) == mov(m, OperandReg(dst), OperandMem(RegisterArrayBase, src))
store_vm_local(m, dst, src) == mov(m, OperandMem(LocalsArrayBase, dst), OperandReg(src))
load_vm_local(m, dst, src) == mov(m, OperandReg(dst), OperandMem(LocalsArrayBase, src))
increment(m, dst) == emit_incr(m, dst)
less_than(m, dst, src) == emit_cset(emit_cmp(m, src, OperandReg(dst)), dst)

\* a variant that records the position after the branch
insert_jump_marker_after(m, target, post_jmp_position) ==
    IF m.panicked THEN m
    ELSE [m EXCEPT !.blocks[target].jumps_to_here = Append(@, post_jmp_position)]

\* BlockTarget::insert_jump_marker (vm.rs 82-87); a BlockTarget is the index
\* of its block
insert_jump_marker(m, target, post_jmp_position) ==
    IF m.panicked THEN m
    ELSE [m EXCEPT !.blocks[target].jumps_to_here = Append(@, post_jmp_position - 4)]

\* target.insert_jump_marker(self.len())
mark_jump(m, target) == insert_jump_marker(m, target, Len(m.output))

jump(m, target) == mark_jump(emit_branch(m, \hdeadaf), target)

\* a variant that records the B.EQ for the true target and the B for the false
jump_conditional_swapped(m, reg, true_target, false_target) ==
    jump(mark_jump(emit_branch_eq(emit_cmp(m, reg, OperandImm64(Zero64)), \hdead),
                   true_target),
         false_target)

jump_conditional(m, reg, true_target, false_target) ==
    jump(mark_jump(emit_branch_eq(emit_cmp(m, reg, OperandImm64(Zero64)), \hdead),
                   false_target),
         true_target)

\* assembler.rs 120-125
call_pop_dst(m, dst) ==
    IF dst # GPR0
    THEN emit_pop(emit_mov_reg(m, dst, GPR0), Some(GPR0))
    ELSE emit_pop(m, None)

\* Func::FnSingleInt64WithReturnInt64(func, arg0); addr is func's address
call_into_rust(m, dst, addr, arg0) ==
    emit_pop(emit_pop(emit_pop(
        call_pop_dst(
            emit_pop(emit_pop(
                emit_mov_reg(
                    emit_branch_with_link(
                        emit_mov_imm(
                            emit_mov_imm(
                                emit_push(emit_push(emit_push(emit_push(emit_push(
                                    emit_push(m, VmStructBase),
                                    RegisterArrayBase), LocalsArrayBase), GPR0), GPR1),
                                    RET),
                                VmStructBase, arg0),
                            GPR1, addr),
                        GPR1),
                    GPR0, VmStructBase),
                Some(RET)), Some(GPR1)),
            dst),
        Some(LocalsArrayBase)), Some(RegisterArrayBase)), Some(VmStructBase))

brk(m) == emit_brk(m, 0)
ret(m) == emit_ret(m)
no_op(m) == emit_nop(m)

\* a variant that stores the word most significant byte first
rewrite_instr32_be(m, offset, value) ==
    IF m.panicked THEN m
    ELSE IF offset + 4 > Len(m.output) THEN [m EXCEPT !.panicked = TRUE]
    ELSE [m EXCEPT !.output = [i \in 1..Len(@) |->
              IF i \in offset + 1..offset + 4 THEN LeBytes(value)[5 - (i - offset)] ELSE @[i]]]

\* Assembler::rewrite_instr32
rewrite_instr32(m, offset, value) ==
    IF m.panicked THEN m
    ELSE IF offset + 4 > Len(m.output) THEN [m EXCEPT !.panicked = TRUE]
    ELSE [m EXCEPT !.output = [i \in 1..Len(@) |->
              IF i \in offset + 1..offset + 4 THEN LeBytes(value)[i - offset] ELSE @[i]]]

\* -------------------------------------------------------------- the Jit
\* Instruction (vm.rs 121-153); a block target is the index of the block in
\* Program.blocks
LoadImmediate(value) == [op |-> "LoadImmediate", value |-> value]
Load(reg) == [op |-> "Load", reg |-> reg]
Store(reg) == [op |-> "Store", reg |-> reg]
SetLocal(local) == [op |-> "SetLocal", local |-> local]
GetLocal(local) == [op |-> "GetLocal", local |-> local]
Increment == [op |-> "Increment"]
LessThan(lhs) == [op |-> "LessThan", lhs |-> lhs]
Breakpoint == [op |-> "Breakpoint"]
Exit == [op |-> "Exit"]
Jump(target) == [op |-> "Jump", target |-> target]
JumpConditional(true_target, false_target) ==
    [op |-> "JumpConditional", true_target |-> true_target, false_target |-> false_target]
LoadRandom(max) == [op |-> "LoadRandom", max |-> max]

\* VM (vm.rs 5-17)
VM(registers, locals) == [registers |-> registers, locals |-> locals]

\* BasicBlock (vm.rs 96-101)
BasicBlock(instructions) ==
    [instructions |-> instructions, jumps_to_here |-> <<>>, offset |-> 0]

\* the address of crate::vm::rand::ParkMiller::next in the process image
ParkMillerNext == V64(\h4e20, \h0001, \h0001, 0)

\* One arm of the match in Jit::compile (mod.rs 26-85)
lower_instruction(m, instruction) ==
    CASE instruction.op = "LoadImmediate" ->
           store_vm_register(load_immediate64(m, GPR0, instruction.value), 0, GPR0)
      [] instruction.op = "Load" ->
           store_vm_register(load_vm_register(m, GPR0, instruction.reg), 0, GPR0)
      [] instruction.op = "Store" ->
           store_vm_register(load_vm_register(m, GPR0, 0), instruction.reg, GPR0)
      [] instruction.op = "SetLocal" ->
           store_vm_local(load_vm_register(m, GPR0, 0), instruction.local, GPR0)
      [] instruction.op = "GetLocal" ->
           store_vm_register(load_vm_local(m, GPR0, instruction.local), 0, GPR0)
      [] instruction.op = "Increment" ->
           store_vm_register(increment(load_vm_register(m, GPR0, 0), GPR0), 0, GPR0)
      [] instruction.op = "LessThan" ->
           store_vm_register(
               less_than(load_vm_register(load_vm_register(m, GPR0, instruction.lhs),
                                          GPR1, 0),
                         GPR0, GPR1),
               0, GPR0)
      [] instruction.op = "LoadRandom" ->
           store_vm_register(call_into_rust(m, GPR0, ParkMillerNext, instruction.max),
                             0, GPR0)
      [] instruction.op = "Breakpoint" -> brk(m)
      [] instruction.op = "Exit" -> ret(m)
      [] instruction.op = "Jump" -> jump(m, instruction.target)
      [] instruction.op = "JumpConditional" ->
           jump_conditional(load_vm_register(m, GPR0, 0), GPR0,
                            instruction.true_target, instruction.false_target)

\* x as i16, for a usize x
AsI16(x) == LET r == x % 65536 IN IF r >= 32768 THEN r - 65536 ELSE r
I16Overflows(x) == x < -32768 \/ x > 32767
WrapI16(x) == AsI16(x + 65536)

\* Rust's integer division truncates toward zero
TruncDiv(a, b) == IF a >= 0 THEN a \div b ELSE -((-a) \div b)

sign_extend_upper_bits(value, bits) == IF value < 0 THEN Pow2(bits) - 1 ELSE 0

sign_extend(value, bits) == IF value < 0 THEN Pow2(bits) + value ELSE value

OP_JMP == \b000101
OP_JEQ == \b010101

\* mod.rs 102-141: the word link_and_rewrite computes for the branch whose
\* four bytes are jump_instr, as the Result of BitwiseWriter::write, or a
\* panic
link_value(jump_instr, target_offset, instr_offset) ==
    LET op_code == jump_instr[4] \div 4
        diff == AsI16(target_offset) - AsI16(instr_offset)
        byte_offset == WrapI16(diff)
        offset == TruncDiv(byte_offset, 4)
    IN  IF overflow_checks /\ I16Overflows(diff) THEN Panic
        ELSE CASE op_code = OP_JMP ->
                    write(<<BitIndex(op_code, 6),
                            BitIndex(sign_extend_upper_bits(offset, 10), 10),
                            BitIndex(sign_extend(offset, 16), 16)>>, overflow_checks)
               [] op_code = OP_JEQ ->
                    write(<<BitIndex(\b01010100, 8),
                            BitIndex(sign_extend_upper_bits(offset, 3), 3),
                            BitIndex(sign_extend(offset, 16), 16),
                            BitIndex(0, 5)>>, overflow_checks)
               [] OTHER -> Panic

\* Jit::link_and_rewrite
\* self.assembler.rewrite_instr32(instr_offset, value.unwrap())
rewrite_unwrap(m, instr_offset, value) ==
    IF value.status # "ok" THEN [m EXCEPT !.panicked = TRUE]
    ELSE rewrite_instr32(m, instr_offset, value.value)

link_and_rewrite(m, target_offset, instr_offset) ==
    IF m.panicked THEN m
    ELSE IF instr_offset + 4 > Len(m.output) THEN [m EXCEPT !.panicked = TRUE]
    ELSE rewrite_unwrap(m, instr_offset,
                        link_value(SubSeq(m.output, instr_offset + 1, instr_offset + 4),
                                   target_offset, instr_offset))

\* ------------------------------------------------------- u64 arithmetic
\* the carry out of limbs 1..i of a + b + cin
RECURSIVE CarryOut(_, _, _, _)
CarryOut(a, b, cin, i) ==
    IF i = 0 THEN cin ELSE (a[i] + b[i] + CarryOut(a, b, cin, i - 1)) \div 65536

\* a + b + cin modulo 2^64
Add64(a, b, cin) == [i \in 1..4 |-> (a[i] + b[i] + CarryOut(a, b, cin, i - 1)) % 65536]

\* the one's complement
Not64(a) == [i \in 1..4 |-> 65535 - a[i]]

\* a - b = a + ~b + 1 modulo 2^64
Sub64(a, b) == Add64(a, Not64(b), 1)

Sign64(a) == IF a[4] >= 32768 THEN 1 ELSE 0

\* the NZCV flags of SUBS: a - b
FlagsOfSub(a, b, r) ==
    [n |-> Sign64(r),
     z |-> IF r = Zero64 THEN 1 ELSE 0,
     c |-> CarryOut(a, Not64(b), 1, 4),
     v |-> IF Sign64(a) # Sign64(b) /\ Sign64(r) # Sign64(a) THEN 1 ELSE 0]

\* a < b as unsigned 64-bit integers (the u64 comparison of Rust)
Less64(a, b) ==
    \E i \in 1..4 : a[i] < b[i] /\ \A j \in (i + 1)..4 : a[j] = b[j]

\* the address a u64 denotes, when it is below 2^31
AddrInt(v) == IF v[3] = 0 /\ v[4] = 0 /\ v[2] < 32768 THEN v[1] + 65536 * v[2] ELSE -1

\* ------------------------------------------------------- the interpreter
\* the state of run_interpreted (main.rs 43-100): the VM it works on, the
\* block and instruction index of its loop, the instruction it executed last
Interp(v, status, b, i, last) ==
    [vm |-> v, status |-> status, current_block |-> b, instruction_index |-> i,
     last |-> last, steps |-> 0]

NoInstruction == <<0, 0>>

\* main.rs 94-97 followed by the `instruction_index += 1` that ends the
\* loop body (main.rs 70)
jump_then_increment(r, target) ==
    [r EXCEPT !.current_block = target, !.instruction_index = 0 + 1]

interp_jump(r, target) == jump_then_increment(r, target)

interp_next(r) == [r EXCEPT !.instruction_index = @ + 1]
interp_fail(r, status) == [r EXCEPT !.status = status]

set_accum(r, value) == interp_next([r EXCEPT !.vm.registers[1] = value])

\* main.rs 89-92: the comparison is on u64
interp_less_than(r, lhs) ==
    IF lhs >= Len(r.vm.registers) THEN interp_fail(r, "err")
    ELSE set_accum(r, IF Less64(r.vm.registers[lhs + 1], r.vm.registers[1])
                      THEN One64 ELSE Zero64)

\* main.rs 56: += on u64 panics on overflow in a debug build
interp_increment(r) ==
    IF overflow_checks /\ r.vm.registers[1] = Max64 THEN interp_fail(r, "panic")
    ELSE set_accum(r, Add64(r.vm.registers[1], Zero64, 1))

\* the body of the loop for one instruction (main.rs 49-70); the match has no
\* arm for Breakpoint and LoadRandom
interp_execute(r, instruction) ==
    CASE instruction.op = "LoadImmediate" -> set_accum(r, instruction.value)
      [] instruction.op = "Load" ->
           IF instruction.reg >= Len(r.vm.registers) THEN interp_fail(r, "err")
           ELSE set_accum(r, r.vm.registers[instruction.reg + 1])
      [] instruction.op = "Store" ->
           IF instruction.reg >= Len(r.vm.registers) THEN interp_fail(r, "err")
           ELSE interp_next([r EXCEPT !.vm.registers[instruction.reg + 1] =
                                          r.vm.registers[1]])
      [] instruction.op = "SetLocal" ->
           IF instruction.local >= Len(r.vm.locals) THEN interp_fail(r, "err")
           ELSE interp_next([r EXCEPT !.vm.locals[instruction.local + 1] =
                                          r.vm.registers[1]])
      [] instruction.op = "GetLocal" ->
           IF instruction.local >= Len(r.vm.locals) THEN interp_fail(r, "err")
           ELSE set_accum(r, r.vm.locals[instruction.local + 1])
      [] instruction.op = "Increment" -> interp_increment(r)
      [] instruction.op = "LessThan" -> interp_less_than(r, instruction.lhs)
      [] instruction.op = "Exit" -> interp_fail(r, "ok")
      [] instruction.op = "Jump" -> interp_jump(r, instruction.target)
      [] instruction.op = "JumpConditional" ->
           interp_jump(r, IF r.vm.registers[1] # Zero64 THEN instruction.true_target
                          ELSE instruction.false_target)
      [] OTHER -> interp_fail(r, "unsupported")

\* main.rs 44: the run starts in the first block, if there is one
interp_start(blocks, v) ==
    IF Len(blocks) = 0 THEN Interp(v, "err", 0, 0, NoInstruction)
    ELSE Interp(v, "running", 1, 0, NoInstruction)

\* one turn of `while instruction_index < current_block.len()`
interp_step(blocks, r) ==
    IF r.instruction_index < Len(blocks[r.current_block].instructions)
    THEN interp_execute([r EXCEPT !.last = <<r.current_block, r.instruction_index>>,
                                  !.steps = @ + 1],
                        blocks[r.current_block].instructions[r.instruction_index + 1])
    ELSE interp_fail(r, "ok")

\* ------------------------------------------- the machine (AArch64, EL0)
\* Where Executable::run places things (executable.rs 56-74): the code, the
\* VM struct, the two arrays, the stack of the calling thread, and the
\* address exec_fn returns to.
CodeAddr == V64(0, 16, 0, 0)
VmAddr == V64(0, 1, 0, 0)
RegistersAddr == V64(0, 2, 0, 0)
LocalsAddr == V64(0, 4, 0, 0)
StackTop == V64(0, 8, 0, 0)
HostReturn == V64(0, 32, 0, 0)

\* what a register holds that the caller did not set
Scratch64 == Beef64

\* The state of the thread that runs the generated code:
\*   x, sp, pc, nzcv   the registers; pc is an offset into the code
\*   registers, locals the VM's arrays the code reads and writes
\*   stack             the stack slots written so far, by address
\*   status            running, returned, trap, fault
Machine(v, status) ==
    [x |-> [r \in 0..30 |->
              CASE r = VmStructBase -> VmAddr
                [] r = RegisterArrayBase -> RegistersAddr
                [] r = LocalsArrayBase -> LocalsAddr
                [] r = RET -> HostReturn
                [] OTHER -> Scratch64],
     sp |-> StackTop, pc |-> 0,
     nzcv |-> [n |-> 0, z |-> 0, c |-> 0, v |-> 0],
     registers |-> v.registers, locals |-> v.locals,
     stack |-> <<>>, status |-> status, steps |-> 0]

XZR(c, r) == IF r = 31 THEN Zero64 ELSE c.x[r]
XSP(c, r) == IF r = 31 THEN c.sp ELSE c.x[r]
SetXZR(c, r, value) == IF r = 31 THEN c ELSE [c EXCEPT !.x[r] = value]
SetXSP(c, r, value) == IF r = 31 THEN [c EXCEPT !.sp = value] ELSE [c EXCEPT !.x[r] = value]
Advance(c) == [c EXCEPT !.pc = @ + 4]
Fault(c) == [c EXCEPT !.status = "fault"]

\* the element of an array of n u64 at `base` that the address denotes, or -1
ElementAt(address, base, n) ==
    IF AddrInt(address) >= AddrInt(base) /\ AddrInt(address) < AddrInt(base) + 8 * n
       /\ (AddrInt(address) - AddrInt(base)) % 8 = 0
    THEN (AddrInt(address) - AddrInt(base)) \div 8 + 1
    ELSE -1

\* the stack grows down from StackTop; a slot is its distance below the top
StackSlot(address) ==
    IF AddrInt(address) >= 0 /\ AddrInt(address) < AddrInt(StackTop)
       /\ AddrInt(address) >= AddrInt(StackTop) - 8 * 1024
       /\ (AddrInt(StackTop) - AddrInt(address)) % 8 = 0
    THEN (AddrInt(StackTop) - AddrInt(address)) \div 8
    ELSE -1

\* LDR Xt, [address]: outside the VM's arrays and the stack the load reads
\* memory the program does not own; a stack slot not written yet holds
\* whatever was there
MemLoad(c, rt, address) ==
    IF ElementAt(address, RegistersAddr, Len(c.registers)) > 0
    THEN SetXZR(c, rt, c.registers[ElementAt(address, RegistersAddr, Len(c.registers))])
    ELSE IF ElementAt(address, LocalsAddr, Len(c.locals)) > 0
    THEN SetXZR(c, rt, c.locals[ElementAt(address, LocalsAddr, Len(c.locals))])
    ELSE IF StackSlot(address) >= 1
    THEN SetXZR(c, rt, IF StackSlot(address) <= Len(c.stack)
                       THEN c.stack[StackSlot(address)] ELSE Scratch64)
    ELSE Fault(c)

\* STR Xt, [address]
MemStore(c, value, address) ==
    IF ElementAt(address, RegistersAddr, Len(c.registers)) > 0
    THEN [c EXCEPT !.registers[ElementAt(address, RegistersAddr, Len(c.registers))] = value]
    ELSE IF ElementAt(address, LocalsAddr, Len(c.locals)) > 0
    THEN [c EXCEPT !.locals[ElementAt(address, LocalsAddr, Len(c.locals))] = value]
    ELSE IF StackSlot(address) >= 1
    THEN [c EXCEPT !.stack = [k \in 1..Max(Len(@), StackSlot(address)) |->
                                 IF k = StackSlot(address) THEN value
                                 ELSE IF k <= Len(@) THEN @[k] ELSE Scratch64]]
    ELSE Fault(c)

\* a two's complement field of `bits` bits as a signed integer
SignedField(value, bits) ==
    IF value >= Pow2(bits - 1) THEN value - Pow2(bits) ELSE value

\* ConditionHolds of the Arm ARM
ConditionBase(cond, f) ==
    CASE cond \div 2 = 0 -> f.z = 1
      [] cond \div 2 = 1 -> f.c = 1
      [] cond \div 2 = 2 -> f.n = 1
      [] cond \div 2 = 3 -> f.v = 1
      [] cond \div 2 = 4 -> f.c = 1 /\ f.z = 0
      [] cond \div 2 = 5 -> f.n = f.v
      [] cond \div 2 = 6 -> f.n = f.v /\ f.z = 0
      [] OTHER -> TRUE

ConditionHolds(cond, f) ==
    IF cond % 2 = 1 /\ cond # 15 THEN ~ConditionBase(cond, f) ELSE ConditionBase(cond, f)

AdvanceIfRunning(c) == IF c.status = "running" THEN Advance(c) ELSE c

\* a 12-bit immediate, shifted left by 12 when sh is set
Imm12(sh, imm12) == FromInt(IF sh = 1 THEN imm12 * 4096 ELSE imm12)

exec_movz(c, hw, imm16, rd) ==
    Advance(SetXZR(c, rd, [i \in 1..4 |-> IF i = hw + 1 THEN imm16 ELSE 0]))

exec_movk(c, hw, imm16, rd) ==
    Advance(SetXZR(c, rd, [XZR(c, rd) EXCEPT ![hw + 1] = imm16]))

exec_ldr(c, imm12, rn, rt) ==
    AdvanceIfRunning(MemLoad(c, rt, Add64(XSP(c, rn), FromInt(8 * imm12), 0)))

exec_str(c, imm12, rn, rt) ==
    AdvanceIfRunning(MemStore(c, XZR(c, rt), Add64(XSP(c, rn), FromInt(8 * imm12), 0)))

exec_add_imm(c, sh, imm12, rn, rd) ==
    Advance(SetXSP(c, rd, Add64(XSP(c, rn), Imm12(sh, imm12), 0)))

exec_sub_imm(c, sh, imm12, rn, rd) ==
    Advance(SetXSP(c, rd, Sub64(XSP(c, rn), Imm12(sh, imm12))))

\* SUBS: the difference goes to Xd (XZR discards it), the flags to NZCV
exec_subs(c, a, b, rd) ==
    Advance(SetXZR([c EXCEPT !.nzcv = FlagsOfSub(a, b, Sub64(a, b))], rd, Sub64(a, b)))

\* ORR Xd, XZR, Xm is MOV Xd, Xm; no other ORR is generated
exec_orr(c, rm, rn, rd) ==
    IF rn = 31 THEN Advance(SetXZR(c, rd, XZR(c, rm))) ELSE Fault(c)

exec_csinc(c, rm, cond, rn, rd) ==
    Advance(SetXZR(c, rd, IF ConditionHolds(cond, c.nzcv) THEN XZR(c, rn)
                          ELSE Add64(XZR(c, rm), Zero64, 1)))

exec_b(c, imm26) == [c EXCEPT !.pc = @ + 4 * SignedField(imm26, 26)]

exec_bcond(c, imm19, cond) ==
    IF ConditionHolds(cond, c.nzcv)
    THEN [c EXCEPT !.pc = @ + 4 * SignedField(imm19, 19)]
    ELSE Advance(c)

\* the address of the instruction at an offset of the code
CodeAt(offset) == Add64(CodeAddr, FromInt(offset), 0)

\* BLR Xn: the generated code calls nothing but ParkMiller::next
exec_blr(c, rn) ==
    IF XZR(c, rn) = ParkMillerNext
    THEN [c EXCEPT !.x[30] = CodeAt(c.pc + 4), !.status = "call"]
    ELSE Fault(c)

\* RET Xn: to the caller of exec_fn, or back into the code
exec_ret(c, rn) ==
    IF XZR(c, rn) = HostReturn THEN [c EXCEPT !.status = "returned"]
    ELSE IF AddrInt(XZR(c, rn)) >= AddrInt(CodeAddr)
            /\ AddrInt(XZR(c, rn)) < AddrInt(CodeAddr) + 65536
    THEN [c EXCEPT !.pc = AddrInt(XZR(c, rn)) - AddrInt(CodeAddr)]
    ELSE Fault(c)

exec_brk(c) == [c EXCEPT !.status = "trap"]

\* one instruction word, decoded by the encodings of the Arm ARM (C4.1)
Execute(c, w) ==
    CASE Bits(w, 31, 23) = \b110100101 ->
           exec_movz(c, Bits(w, 22, 21), Bits(w, 20, 5), Bits(w, 4, 0))
      [] Bits(w, 31, 23) = \b111100101 ->
           exec_movk(c, Bits(w, 22, 21), Bits(w, 20, 5), Bits(w, 4, 0))
      [] Bits(w, 31, 22) = \b1111100101 ->
           exec_ldr(c, Bits(w, 21, 10), Bits(w, 9, 5), Bits(w, 4, 0))
      [] Bits(w, 31, 22) = \b1111100100 ->
           exec_str(c, Bits(w, 21, 10), Bits(w, 9, 5), Bits(w, 4, 0))
      [] Bits(w, 31, 23) = \b100100010 ->
           exec_add_imm(c, Bits(w, 22, 22), Bits(w, 21, 10), Bits(w, 9, 5), Bits(w, 4, 0))
      [] Bits(w, 31, 23) = \b110100010 ->
           exec_sub_imm(c, Bits(w, 22, 22), Bits(w, 21, 10), Bits(w, 9, 5), Bits(w, 4, 0))
      [] Bits(w, 31, 23) = \b111100010 ->
           exec_subs(c, XSP(c, Bits(w, 9, 5)), Imm12(Bits(w, 22, 22), Bits(w, 21, 10)),
                     Bits(w, 4, 0))
      [] Bits(w, 31, 21) = \b11101011000 /\ Bits(w, 15, 10) = 0 ->
           exec_subs(c, XZR(c, Bits(w, 9, 5)), XZR(c, Bits(w, 20, 16)), Bits(w, 4, 0))
      [] Bits(w, 31, 21) = \b10101010000 /\ Bits(w, 15, 10) = 0 ->
           exec_orr(c, Bits(w, 20, 16), Bits(w, 9, 5), Bits(w, 4, 0))
      [] Bits(w, 31, 21) = \b10011010100 /\ Bits(w, 11, 10) = 1 ->
           exec_csinc(c, Bits(w, 20, 16), Bits(w, 15, 12), Bits(w, 9, 5), Bits(w, 4, 0))
      [] Bits(w, 31, 26) = \b000101 -> exec_b(c, Bits(w, 25, 0))
      [] Bits(w, 31, 24) = \b01010100 /\ Bits(w, 4, 4) = 0 ->
           exec_bcond(c, Bits(w, 23, 5), Bits(w, 3, 0))
      [] Bits(w, 31, 10) = \b1101011000111111000000 /\ Bits(w, 4, 0) = 0 ->
           exec_blr(c, Bits(w, 9, 5))
      [] Bits(w, 31, 10) = \b1101011001011111000000 /\ Bits(w, 4, 0) = 0 ->
           exec_ret(c, Bits(w, 9, 5))
      [] Bits(w, 31, 21) = \b11010100001 /\ Bits(w, 4, 0) = 0 -> exec_brk(c)
      [] w = NopWord -> Advance(c)
      [] OTHER -> Fault(c)

\* the instruction word at an offset of the code (little endian)
WordAt(code, offset) ==
    U32(code[offset + 4] * 256 + code[offset + 3], code[offset + 2] * 256 + code[offset + 1])

\* fetch and execute; past the end of the code lies no instruction
machine_step(code, c) ==
    IF c.pc < 0 \/ c.pc + 4 > Len(code) THEN Fault(c)
    ELSE Execute([c EXCEPT !.steps = @ + 1], WordAt(code, c.pc))

\* ParkMiller::next(max_value) returns to the code: its result is in X0, the
\* registers the procedure call standard lets it use hold what it left there
host_return(c, result) ==
    [c EXCEPT !.x = [r \in 0..30 |->
                       IF r = 0 THEN result
                       ELSE IF r <= 17 THEN Scratch64 ELSE @[r]],
              !.pc = AddrInt(c.x[30]) - AddrInt(CodeAddr),
              !.status = "running"]

\* ------------------------------------------------------ Jit::compile
\* The position after instruction i - 1 of block b was lowered: instruction
\* i, or the next block, or the first pair to link.
RECURSIVE LinkPos(_, _, _, _)
\* the next (block, jump) pair at or after (b, j), in the order of the loops
\* of mod.rs 89-94; after the last pair the pass is over
LinkPos(blocks, phase, b, j) ==
    IF b > Len(blocks) THEN [phase |-> IF phase = "link" THEN "compiled" ELSE "relinked"]
    ELSE IF j <= Len(blocks[b].jumps_to_here)
    THEN [phase |-> phase, block |-> b, jump |-> j]
    ELSE LinkPos(blocks, phase, b + 1, 1)

\* The position after instruction i - 1 of block b was lowered: instruction
\* i, or the next block, or the first pair to link.
LowerPos(blocks, b, i) ==
    IF b > Len(blocks) THEN LinkPos(blocks, "link", 1, 1)
    ELSE IF i <= Len(blocks[b].instructions)
    THEN [phase |-> "lower", block |-> b, instr |-> i]
    ELSE IF b < Len(blocks) THEN [phase |-> "lower", block |-> b + 1, instr |-> 0]
    ELSE LinkPos(blocks, "link", 1, 1)

Panicked == [phase |-> "panic"]
NotStarted == [status |-> "idle"]

\* mod.rs 20-21: entering a block records its offset
LowerBlock ==
    /\ pc.phase = "lower"
    /\ pc.instr = 0
    /\ program' = [program EXCEPT ![pc.block].offset = Len(output)]
    /\ block_offsets' = Append(block_offsets, Len(output))
    /\ emitted' = <<>>
    /\ pc' = LowerPos(program', pc.block, 1)
    /\ UNCHANGED <<overflow_checks, call, output, vm, machine, interp>>

\* the assembler's state m becomes the pipeline's
Lowered(m) ==
    /\ output' = m.output
    /\ program' = m.blocks
    /\ emitted' = m.emitted
    /\ pc' = IF m.panicked THEN Panicked
             ELSE LowerPos(m.blocks, pc.block, pc.instr + 1)

\* mod.rs 23-86: one instruction of the current block is lowered
LowerInstruction ==
    /\ pc.phase = "lower"
    /\ pc.instr >= 1
    /\ Lowered(lower_instruction(Asm(output, program),
                                  program[pc.block].instructions[pc.instr]))
    /\ UNCHANGED <<overflow_checks, call, block_offsets, vm, machine, interp>>

\* the assembler's state m after link_and_rewrite on the pair at pos
Linked(pos, m) ==
    /\ output' = m.output
    /\ pc' = IF m.panicked THEN Panicked
             ELSE LinkPos(program, pos.phase, pos.block, pos.jump + 1)

\* mod.rs 89-94: the recorded jump at pos is linked
LinkStep(pos) ==
    /\ Linked(pos, link_and_rewrite(Asm(output, program), program[pos.block].offset,
                                     program[pos.block].jumps_to_here[pos.jump]))
    /\ emitted' = <<>>
    /\ UNCHANGED <<overflow_checks, call, program, block_offsets, vm, machine, interp>>

Link ==
    /\ pc.phase = "link"
    /\ LinkStep(pc)

\* a second pass has no pair to link
RelinkNothing ==
    /\ pc' = [phase |-> "relinked"]
    /\ UNCHANGED <<overflow_checks, call, program, output, block_offsets, emitted,
                   vm, machine, interp>>

RelinkAt(pos) == IF pos.phase = "relinked" THEN RelinkNothing ELSE LinkStep(pos)

\* the linker applied a second time to every recorded pair, in the same
\* order, instead of running the code
LinkAgain ==
    \/ /\ pc.phase = "relink"
       /\ LinkStep(pc)
    \/ /\ pc.phase = "compiled"
       /\ machine = NotStarted
       /\ RelinkAt(LinkPos(program, "relink", 1, 1))

\* Executable::new (executable.rs 10-54): the mapping is a whole number of
\* pages and must be longer than the code.  MemoryMap::granularity() is the
\* page size, 16 KiB where MAP_JIT and pthread_jit_write_protect_np exist.
Granularity == 16384

\* the number of bits of n >= 1
BitLength(n) == CHOOSE k \in 1..31 : Pow2(k - 1) <= n /\ (k = 31 \/ n < Pow2(k))

\* n rounded to a multiple of ulp, ties to the even multiple
RoundToEven(n, ulp) ==
    IF 2 * (n % ulp) < ulp \/ (2 * (n % ulp) = ulp /\ (n \div ulp) % 2 = 0)
    THEN (n \div ulp) * ulp
    ELSE (n \div ulp + 1) * ulp

\* `len as f32`: an f32 holds 24 significant bits
AsF32(n) == IF n < 16777216 THEN n ELSE RoundToEven(n, Pow2(BitLength(n) - 24))

\* a variant that rounds up on the integers, without the conversion to f32
buffer_size_exact(len) == ((len + Granularity - 1) \div Granularity) * Granularity

\* executable.rs 11-14: (len as f32 / granularity as f32).ceil() as usize *
\* granularity; the division by a power of two is exact
buffer_size(len) == ((AsF32(len) + Granularity - 1) \div Granularity) * Granularity

\* jit.into_exec() and executable.run(&mut vm): the code is mapped and
\* entered with X0, X1, X2 set (executable.rs 56-74)
JitStart ==
    /\ pc.phase = "compiled"
    /\ machine = NotStarted
    /\ machine' = IF buffer_size(Len(output)) = 0 \/ ~(buffer_size(Len(output)) > Len(output))
                  THEN [status |-> "panic"]
                  ELSE Machine(vm, "running")
    /\ UNCHANGED <<overflow_checks, call, program, output, block_offsets, emitted, pc,
                   vm, interp>>

\* the thread executes one instruction of the code
JitStep ==
    /\ machine.status = "running"
    /\ machine.steps < MaxSteps * 8
    /\ machine' = machine_step(output, machine)
    /\ UNCHANGED <<overflow_checks, call, program, output, block_offsets, emitted, pc,
                   vm, interp>>

\* the results ParkMiller::next(max_value) can return: 0..max_value
HostResults(max_value) ==
    IF AddrInt(max_value) \in 0..3 THEN {FromInt(k) : k \in 0..AddrInt(max_value)}
    ELSE {Zero64, max_value}

\* the call of ParkMiller::next made by BLR runs and returns
HostCall ==
    /\ machine.status = "call"
    /\ \E result \in HostResults(machine.x[0]) : machine' = host_return(machine, result)
    /\ UNCHANGED <<overflow_checks, call, program, output, block_offsets, emitted, pc,
                   vm, interp>>

\* the generated code has stopped, or has used up the steps it is followed for
JitOver ==
    \/ machine.status \in {"returned", "trap", "fault", "panic"}
    \/ machine.status = "running" /\ machine.steps >= MaxSteps * 8

\* run_interpreted(&program, &mut vm) on its own copy of the initial state
InterpStart ==
    /\ JitOver
    /\ interp = NotStarted
    /\ interp' = interp_start(program, vm)
    /\ UNCHANGED <<overflow_checks, call, program, output, block_offsets, emitted, pc,
                   vm, machine>>

InterpStep ==
    /\ interp.status = "running"
    /\ interp.steps < MaxSteps
    /\ interp' = interp_step(program, interp)
    /\ UNCHANGED <<overflow_checks, call, program, output, block_offsets, emitted, pc,
                   vm, machine>>

\* ------------------------------------------------- unit spec: the packer
Idle == [fn |-> "none"]

FieldWidths == {0, 6, 10, 16, 32}
FieldValues(w) ==
    IF w = 0 \/ w > 30 THEN {0, 1} ELSE {0, Pow2(w) - 1, Pow2(w)}
Fields == UNION {{BitIndex(v, w) : v \in FieldValues(w)} : w \in FieldWidths}
FieldLists == UNION {[1..n -> Fields] : n \in 1..MaxFields}

\* the pipeline at rest, in a unit specification
PipelineIdle ==
    /\ program = <<>>
    /\ output = <<>>
    /\ block_offsets = <<>>
    /\ emitted = <<>>
    /\ pc = [phase |-> "idle"]
    /\ vm = VM(<<>>, <<>>)
    /\ machine = NotStarted
    /\ interp = NotStarted

pipeline_vars == <<program, output, block_offsets, emitted, pc, vm, machine, interp>>

InitWriter ==
    /\ overflow_checks \in BOOLEAN
    /\ PipelineIdle
    /\ \E g \in FieldLists : call = [fn |-> "write", generator |-> g, done |-> FALSE]

Write ==
    /\ call.fn = "write"
    /\ ~call.done
    /\ call' = [call EXCEPT !.done = TRUE] @@
               [result |-> write(call.generator, overflow_checks)]
    /\ UNCHANGED <<overflow_checks, pipeline_vars>>

vars == <<overflow_checks, call, pipeline_vars>>

SpecWriter == InitWriter /\ [][Write]_vars

\* ------------------------------------------------- unit spec: the linker
\* the placeholders Assembler::jump and jump_conditional emit
PlaceholderB == write(<<BitIndex(\b000101, 6), BitIndex(\hdeadaf, 26)>>, FALSE).value
PlaceholderBEq ==
    write(<<BitIndex(\b01010100, 8), BitIndex(\hdead, 19), BitIndex(0, 5)>>, FALSE).value

\* byte offsets of blocks and branch sites, in small and in large buffers
LinkOffsets == {0, 4, 8, 20, 32764, 32768, 40000, 65536, 1048576, 134217728}

InitLink ==
    /\ overflow_checks \in BOOLEAN
    /\ PipelineIdle
    /\ \E placeholder \in {PlaceholderB, PlaceholderBEq}, t \in LinkOffsets, i \in LinkOffsets :
          call = [fn |-> "link_and_rewrite", jump_instr |-> LeBytes(placeholder),
                  target_offset |-> t, instr_offset |-> i, done |-> FALSE]

\* link_and_rewrite computes the word for one (target offset, site) pair
LinkOne ==
    /\ call.fn = "link_and_rewrite"
    /\ ~call.done
    /\ call' = [call EXCEPT !.done = TRUE] @@
               [result |-> link_value(call.jump_instr, call.target_offset, call.instr_offset)]
    /\ UNCHANGED <<overflow_checks, pipeline_vars>>

SpecLink == InitLink /\ [][LinkOne]_vars

\* --------------------------------------------- unit spec: load_immediate64
Halfwords == {0, 1, 65535}
Immediates == {V64(a, b, c, d) : a \in Halfwords, b \in Halfwords, c \in Halfwords,
                                 d \in Halfwords}

\* the registers an immediate is loaded into; SP is no destination of MOVZ
Destinations == {GPR0, GPR1, VmStructBase, RET}

InitMovImm ==
    /\ overflow_checks \in BOOLEAN
    /\ program = <<>>
    /\ output = <<>>
    /\ block_offsets = <<>>
    /\ emitted = <<>>
    /\ pc = [phase |-> "idle"]
    /\ vm = VM(<<>>, <<>>)
    /\ interp = NotStarted
    /\ \E dst \in Destinations, imm \in Immediates, before \in {Zero64, Max64, Beef64} :
          /\ call = [fn |-> "load_immediate64", dst |-> dst, imm |-> imm, done |-> FALSE]
          /\ machine = [Machine(vm, "idle") EXCEPT !.x[dst] = before]

\* the assembler's output becomes the code the thread runs
Loaded(m) ==
    /\ output' = m.output
    /\ emitted' = m.emitted
    /\ machine' = [machine EXCEPT !.status = IF m.panicked THEN "panic" ELSE "running"]

\* assembler.load_immediate64(dst, imm) on an empty buffer
LoadImmediate64 ==
    /\ call.fn = "load_immediate64"
    /\ ~call.done
    /\ call' = [call EXCEPT !.done = TRUE]
    /\ Loaded(load_immediate64(Asm(<<>>, <<>>), call.dst, call.imm))
    /\ UNCHANGED <<overflow_checks, program, block_offsets, pc, vm, interp>>

SpecMovImm == InitMovImm /\ [][LoadImmediate64 \/ JitStep]_vars

\* ------------------------------- unit spec: VM register and local accesses
\* VMRegister and VMLocal indices (vm.rs): around the 12-bit limit and beyond
Indices == {0, 1, 7, 4095, 4096, 4097, 8191, 65536, 1073741824}

AccessRoutines ==
    {"store_vm_register", "load_vm_register", "store_vm_local", "load_vm_local"}

\* assembler.rs 38-64
access(m, routine, idx, reg) ==
    CASE routine = "store_vm_register" -> store_vm_register(m, idx, reg)
      [] routine = "load_vm_register" -> load_vm_register(m, reg, idx)
      [] routine = "store_vm_local" -> store_vm_local(m, idx, reg)
      [] routine = "load_vm_local" -> load_vm_local(m, reg, idx)

\* a VM of 8 registers and 8 locals, every cell with a value of its own
AccessVM == VM([i \in 1..8 |-> FromInt(100 + i)], [i \in 1..8 |-> FromInt(200 + i)])

InitAccess ==
    /\ overflow_checks \in BOOLEAN
    /\ program = <<>>
    /\ output = <<>>
    /\ block_offsets = <<>>
    /\ emitted = <<>>
    /\ pc = [phase |-> "idle"]
    /\ vm = AccessVM
    /\ interp = NotStarted
    /\ machine = Machine(vm, "idle")
    /\ \E routine \in AccessRoutines, idx \in Indices, reg \in {GPR0, GPR1} :
          call = [fn |-> "access", routine |-> routine, idx |-> idx, reg |-> reg,
                  done |-> FALSE]

\* one of the four routines on an empty buffer
AccessCall ==
    /\ call.fn = "access"
    /\ ~call.done
    /\ call' = [call EXCEPT !.done = TRUE]
    /\ Loaded(access(Asm(<<>>, <<>>), call.routine, call.idx, call.reg))
    /\ UNCHANGED <<overflow_checks, program, block_offsets, pc, vm, interp>>

SpecAccess == InitAccess /\ [][AccessCall \/ JitStep]_vars

\* ------------------------------------------------ unit spec: the encoder
\* Reg (assembler.rs 5-15)
Regs == {VmStructBase, RegisterArrayBase, LocalsArrayBase, GPR0, GPR1, RET, SP}

Imm12s == {0, 1, 64, 4095}
Imm16s == {0, 1, 65535}
Imm19s == {0, 1, 57005, 524287}
Imm26s == {0, 1, 14593455, 67108863}

\* one call of a routine of Arm64Writer: its name and its operands
EncoderCalls ==
    {[routine |-> r, a |-> a, b |-> b, c |-> 0] :
        r \in {"emit_mov_reg"}, a \in Regs, b \in Regs}
    \cup {[routine |-> r, a |-> a, b |-> b, c |-> c] :
        r \in {"emit_str", "emit_ldr", "emit_add", "emit_sub"},
        a \in Regs, b \in Regs, c \in Imm12s}
    \cup {[routine |-> "emit_cmp_reg", a |-> a, b |-> b, c |-> 0] : a \in Regs, b \in Regs}
    \cup {[routine |-> "emit_cmp_imm", a |-> a, b |-> 0, c |-> c] : a \in Regs, c \in Imm12s}
    \cup {[routine |-> r, a |-> a, b |-> 0, c |-> 0] :
        r \in {"emit_branch_with_link", "emit_cset", "emit_incr"}, a \in Regs}
    \cup {[routine |-> "emit_branch", a |-> 0, b |-> 0, c |-> c] : c \in Imm26s}
    \cup {[routine |-> "emit_branch_eq", a |-> 0, b |-> 0, c |-> c] : c \in Imm19s}
    \cup {[routine |-> "emit_brk", a |-> 0, b |-> 0, c |-> c] : c \in Imm16s}
    \cup {[routine |-> r, a |-> 0, b |-> 0, c |-> 0] : r \in {"emit_nop", "emit_ret"}}
    \cup {[routine |-> "emit_mov_imm", a |-> a, b |-> 0, c |-> 0, imm |-> imm] :
        a \in Regs, imm \in {Zero64, One64, Max64, Beef64, Top64,
                             V64(0, 1, 0, 0), V64(0, 0, 1, 0), V64(1, 0, 0, 1)}}

\* the routine applied to the assembler m
encode(m, e) ==
    CASE e.routine = "emit_mov_reg" -> emit_mov_reg(m, e.a, e.b)
      [] e.routine = "emit_mov_imm" -> emit_mov_imm(m, e.a, e.imm)
      [] e.routine = "emit_str" -> emit_str(m, e.a, e.c, e.b)
      [] e.routine = "emit_ldr" -> emit_ldr(m, e.a, e.b, e.c)
      [] e.routine = "emit_add" -> emit_add(m, e.a, e.b, e.c)
      [] e.routine = "emit_sub" -> emit_sub(m, e.a, e.b, e.c)
      [] e.routine = "emit_cmp_reg" -> emit_cmp(m, e.a, OperandReg(e.b))
      [] e.routine = "emit_cmp_imm" -> emit_cmp(m, e.a, OperandImm64(FromInt(e.c)))
      [] e.routine = "emit_branch" -> emit_branch(m, e.c)
      [] e.routine = "emit_branch_eq" -> emit_branch_eq(m, e.c)
      [] e.routine = "emit_branch_with_link" -> emit_branch_with_link(m, e.a)
      [] e.routine = "emit_cset" -> emit_cset(m, e.a)
      [] e.routine = "emit_incr" -> emit_incr(m, e.a)
      [] e.routine = "emit_brk" -> emit_brk(m, e.c)
      [] e.routine = "emit_nop" -> emit_nop(m)
      [] e.routine = "emit_ret" -> emit_ret(m)

InitEncode ==
    /\ overflow_checks \in BOOLEAN
    /\ PipelineIdle
    /\ \E e \in EncoderCalls : call = [fn |-> "encode", args |-> e, done |-> FALSE]

\* the routine appends to a buffer that holds one NOP
Encode ==
    /\ call.fn = "encode"
    /\ ~call.done
    /\ call' = [call EXCEPT !.done = TRUE] @@
               [result |-> encode(emit_nop(Asm(<<>>, <<>>)), call.args)]
    /\ UNCHANGED <<overflow_checks, pipeline_vars>>

SpecEncode == InitEncode /\ [][Encode]_vars

\* ----------------------------------------------- unit spec: less_than
CompareValues == {Zero64, One64, Two64, Top64, Max64}

InitLessThan ==
    /\ overflow_checks \in BOOLEAN
    /\ program = <<>>
    /\ output = <<>>
    /\ block_offsets = <<>>
    /\ emitted = <<>>
    /\ pc = [phase |-> "idle"]
    /\ vm = VM(<<>>, <<>>)
    /\ interp = NotStarted
    /\ \E dst \in Destinations, src \in Destinations,
          dst_value \in CompareValues, src_value \in CompareValues :
          /\ dst # src
          /\ call = [fn |-> "less_than", dst |-> dst, src |-> src,
                     dst_value |-> dst_value, src_value |-> src_value, done |-> FALSE]
          /\ machine = [Machine(vm, "idle") EXCEPT !.x[dst] = dst_value,
                                                   !.x[src] = src_value]

\* assembler.less_than(dst, src) on an empty buffer
LessThanCall ==
    /\ call.fn = "less_than"
    /\ ~call.done
    /\ call' = [call EXCEPT !.done = TRUE]
    /\ Loaded(less_than(Asm(<<>>, <<>>), call.dst, call.src))
    /\ UNCHANGED <<overflow_checks, program, block_offsets, pc, vm, interp>>

SpecLessThan == InitLessThan /\ [][LessThanCall \/ JitStep]_vars

\* -------------------------------------------- unit spec: call_into_rust
\* the registers call_into_rust pushes, in the order of the pushes
SavedRegisters == <<VmStructBase, RegisterArrayBase, LocalsArrayBase, GPR0, GPR1, RET>>

InitCall ==
    /\ overflow_checks \in BOOLEAN
    /\ program = <<>>
    /\ output = <<>>
    /\ block_offsets = <<>>
    /\ emitted = <<>>
    /\ pc = [phase |-> "idle"]
    /\ vm = VM(<<>>, <<>>)
    /\ interp = NotStarted
    /\ \E dst \in Regs \ {SP}, arg0 \in {Zero64, Two64, Max64},
          x4 \in {Zero64, Max64}, x5 \in {One64, Top64} :
          /\ machine = [Machine(vm, "idle") EXCEPT !.x[GPR0] = x4, !.x[GPR1] = x5]
          /\ call = [fn |-> "call_into_rust", dst |-> dst, arg0 |-> arg0,
                     x |-> [Machine(vm, "idle") EXCEPT !.x[GPR0] = x4, !.x[GPR1] = x5].x,
                     result |-> <<>>, done |-> FALSE]

\* assembler.call_into_rust(dst, Func::FnSingleInt64WithReturnInt64(f, arg0))
\* on an empty buffer, f being ParkMiller::next
CallIntoRust ==
    /\ call.fn = "call_into_rust"
    /\ ~call.done
    /\ call' = [call EXCEPT !.done = TRUE]
    /\ Loaded(call_into_rust(Asm(<<>>, <<>>), call.dst, ParkMillerNext, call.arg0))
    /\ UNCHANGED <<overflow_checks, program, block_offsets, pc, vm, interp>>

\* f runs and returns a value
CallReturns ==
    /\ call.fn = "call_into_rust"
    /\ machine.status = "call"
    /\ \E result \in HostResults(machine.x[0]) :
          /\ machine' = host_return(machine, result)
          /\ call' = [call EXCEPT !.result = result]
    /\ UNCHANGED <<overflow_checks, program, output, block_offsets, emitted, pc, vm, interp>>

SpecCall == InitCall /\ [][CallIntoRust \/ JitStep \/ CallReturns]_vars

\* ---------------------------------------------- unit spec: Executable
\* the lengths of the code buffer of the Jit handed to Executable::new
CodeLengths ==
    {0, 1, 4, 12, 16380, 16383, 16384, 16385, 16388, 32764, 32768, 49152,
     16777216, 16777217, 67108864, 67108868}

\* Executable::new(jit) and then run(&mut vm), step by step.  `hooks` is the
\* sequence of arguments pthread_jit_write_protect_np was called with on the
\* thread, `mapping` the length of the MemoryMap, `copied` the bytes copied.
InitExec ==
    /\ overflow_checks \in BOOLEAN
    /\ PipelineIdle
    /\ \E len \in CodeLengths :
          call = [fn |-> "Executable::new", len |-> len, step |-> "start", mapping |-> 0,
                  hooks |-> <<>>, copied |-> 0]

ExecStep(from) == call.fn = "Executable::new" /\ call.step = from

\* executable.rs 11-30: MemoryMap::new(buffer_size, opts).expect(..); mmap
\* refuses a length of 0
ExecMap ==
    /\ ExecStep("start")
    /\ call' = IF buffer_size(call.len) = 0 THEN [call EXCEPT !.step = "panic"]
               ELSE [call EXCEPT !.step = "mapped", !.mapping = buffer_size(call.len)]
    /\ UNCHANGED <<overflow_checks, pipeline_vars>>

\* executable.rs 34: pthread_jit_write_protect_np(0)
ExecUnprotect ==
    /\ ExecStep("mapped")
    /\ call' = [call EXCEPT !.step = "writable", !.hooks = Append(@, 0)]
    /\ UNCHANGED <<overflow_checks, pipeline_vars>>

\* executable.rs 37-40: assert!(executable_memory.len() > jit.assembler.len())
ExecAssert ==
    /\ ExecStep("writable")
    /\ call' = [call EXCEPT !.step = IF call.mapping > call.len THEN "copying" ELSE "panic"]
    /\ UNCHANGED <<overflow_checks, pipeline_vars>>

\* executable.rs 42-43: jit.copy_into(executable_memory.data())
ExecCopy ==
    /\ ExecStep("copying")
    /\ call' = [call EXCEPT !.step = "copied", !.copied = call.len]
    /\ UNCHANGED <<overflow_checks, pipeline_vars>>

\* executable.rs 47-53: pthread_jit_write_protect_np(1), and new returns
ExecProtect ==
    /\ ExecStep("copied")
    /\ call' = [call EXCEPT !.step = "returned", !.hooks = Append(@, 1)]
    /\ UNCHANGED <<overflow_checks, pipeline_vars>>

\* executable.rs 56-74: run transmutes the mapping and calls it
ExecRun ==
    /\ ExecStep("returned")
    /\ call' = [call EXCEPT !.step = "running"]
    /\ UNCHANGED <<overflow_checks, pipeline_vars>>

SpecExec ==
    InitExec /\ [][ExecMap \/ ExecUnprotect \/ ExecAssert \/ ExecCopy \/ ExecProtect
                   \/ ExecRun]_vars

\* --------------------------------------------------- unit spec: Parser
\* Text is a sequence of characters, a source a sequence of lines.
Alphanumerics ==
    {"a", "b", "c", "d", "e", "f", "g", "h", "i", "j", "k", "l", "m", "n", "o", "p", "q",
     "r", "s", "t", "u", "v", "w", "x", "y", "z", "A", "B", "C", "D", "E", "F", "G", "H",
     "I", "J", "K", "L", "M", "N", "O", "P", "Q", "R", "S", "T", "U", "V", "W", "X", "Y",
     "Z", "0", "1", "2", "3", "4", "5", "6", "7", "8", "9"}

\* char::is_alphanumeric
is_alphanumeric(ch) == ch \in Alphanumerics

\* str::trim
RECURSIVE trim_start(_)
trim_start(s) == IF s # <<>> /\ Head(s) = " " THEN trim_start(Tail(s)) ELSE s

RECURSIVE trim_end(_)
trim_end(s) ==
    IF s # <<>> /\ s[Len(s)] = " " THEN trim_end(SubSeq(s, 1, Len(s) - 1)) ELSE s

trim(s) == trim_end(trim_start(s))

\* the first position of pattern in s, or 0
find(s, pattern) ==
    IF \E i \in 1..(Len(s) - Len(pattern) + 1) : SubSeq(s, i, i + Len(pattern) - 1) = pattern
    THEN CHOOSE i \in 1..(Len(s) - Len(pattern) + 1) :
            /\ SubSeq(s, i, i + Len(pattern) - 1) = pattern
            /\ \A j \in 1..(i - 1) : SubSeq(s, j, j + Len(pattern) - 1) # pattern
    ELSE 0

\* str::split_once: None, or Some of the text before and after the pattern
split_at(s, pattern, i) ==
    IF i = 0 THEN None
    ELSE Some(<<SubSeq(s, 1, i - 1), SubSeq(s, i + Len(pattern), Len(s))>>)

split_once(s, pattern) == split_at(s, pattern, find(s, pattern))

\* chars().take_while(|x| x.is_alphanumeric() || *x == '_')
RECURSIVE take_label(_)
take_label(s) ==
    IF s # <<>> /\ (is_alphanumeric(Head(s)) \/ Head(s) = "_")
    THEN <<Head(s)>> \o take_label(Tail(s))
    ELSE <<>>

\* Parser::new: the state BlockStart is 0, BlockInstructions(block) is the
\* place of the block in program.blocks; block_targets is the set of the
\* (label, block) entries of the map
NewParser ==
    [state |-> 0, blocks |-> <<>>, blocks_with_declarations |-> <<>>,
     block_targets |-> {}, status |-> "running", block |-> 0]

\* the block the map holds for the label
TargetOf(p, block_label) ==
    (CHOOSE entry \in p.block_targets : entry[1] = block_label)[2]

\* Parser::get_or_create_block: the parser afterwards, its field `block` the
\* block returned; Program::make_block pushes an empty block
get_or_create_block(p, block_label) ==
    IF \E entry \in p.block_targets : entry[1] = block_label
    THEN [p EXCEPT !.block = TargetOf(p, block_label)]
    ELSE [p EXCEPT !.blocks = Append(@, <<>>),
                   !.block_targets = @ \cup {<<block_label, Len(p.blocks) + 1>>},
                   !.block = Len(p.blocks) + 1]

\* Parser::parse_block_start
parse_label(p, label) ==
    IF \E k \in 1..Len(p.blocks_with_declarations) : p.blocks_with_declarations[k] = label
    THEN [p EXCEPT !.status = "panic"]
    ELSE get_or_create_block([p EXCEPT !.blocks_with_declarations = Append(@, label)], label)

parse_block_start(p, line) == parse_label(p, take_label(line))

\* from_str::extract_prefix::<String>(s, pattern): the text after the
\* pattern, trimmed, when nothing precedes the pattern
prefix_of(split) ==
    IF split # None /\ split[1][1] = <<>> THEN Ok(trim(split[1][2])) ELSE Err

extract_prefix(s, pattern) == prefix_of(split_once(trim(s), pattern))

\* Parser::block_target_literal
target_of_label(p, block_label) ==
    IF block_label.status # "ok" THEN [p EXCEPT !.status = "err"]
    ELSE get_or_create_block(p, block_label.value)

block_target_literal(p, x) == target_of_label(p, extract_prefix(trim(x), <<"#">>))

\* instruction::add_unary: block.append(instr); line_num is kept with the
\* instruction to tell the instructions of a block apart
add_unary(p, b, instr, line_num) ==
    [p EXCEPT !.blocks[b] = Append(@, instr @@ [line |-> line_num])]

\* the JUMP arm: add_single_operand with the closure that builds Jump
add_jump_to(p, b, line_num) ==
    IF p.status # "running" THEN p ELSE add_unary(p, b, Jump(p.block), line_num)

add_jump(p, b, x, line_num) == add_jump_to(block_target_literal(p, x), b, line_num)

\* the JUMP_EITHER arm: add_double_operand with the closure that builds
\* JumpConditional; the true target is looked up first
add_jump_false(p, b, true_target, line_num) ==
    IF p.status # "running" THEN p
    ELSE add_unary(p, b, JumpConditional(true_target, p.block), line_num)

add_jump_true(p, b, f, line_num) ==
    IF p.status # "running" THEN p
    ELSE add_jump_false(block_target_literal(p, f), b, p.block, line_num)

add_jump_either(p, b, operands, line_num) ==
    IF operands = None THEN [p EXCEPT !.status = "err"]
    ELSE add_jump_true(block_target_literal(p, operands[1][1]), b, operands[1][2], line_num)

\* Parser::parse_block_instructions, for the jumps and the instructions
\* without operand
parse_operands(p, line, b, i, split) ==
    CASE split # None /\ split[1][1] = <<"J", "U", "M", "P">> ->
           add_jump(p, b, split[1][2], i)
      [] split # None /\ split[1][1] = <<"J", "U", "M", "P", "_", "E", "I", "T", "H", "E", "R">> ->
           add_jump_either(p, b, split_once(split[1][2], <<" ">>), i)
      [] split = None /\ line = <<"I", "N", "C", "R">> -> add_unary(p, b, Increment, i)
      [] split = None /\ line = <<"B", "R", "E", "A", "K">> -> add_unary(p, b, Breakpoint, i)
      [] split = None /\ line = <<"R", "E", "T">> -> add_unary(p, b, Exit, i)
      [] OTHER -> [p EXCEPT !.status = "err"]

parse_block_instructions(p, line, b, i) ==
    parse_operands(p, line, b, i, split_once(line, <<" ">>))

\* the line without the comment
strip_comment(line, split) == IF split = None THEN line ELSE trim(split[1][1])

\* ParserState::BlockInstructions(block) for the block just returned
block_instructions(p) == [p EXCEPT !.state = p.block]

\* the match on the state (parser.rs 46-56)
parse_stripped(p, line, i) ==
    IF line = <<>> THEN p
    ELSE IF p.state = 0 /\ line[Len(line)] = ":"
    THEN block_instructions(parse_block_start(p, line))
    ELSE IF p.state = 0 THEN [p EXCEPT !.status = "err"]
    ELSE parse_block_instructions(p, line, p.state, i)

\* one turn of the loop of Parser::parse (parser.rs 34-57)
parse_line(p, line, i) ==
    parse_stripped(IF line # <<>> /\ is_alphanumeric(line[1]) THEN [p EXCEPT !.state = 0]
                   ELSE p,
                   strip_comment(trim(line), split_once(trim(line), <<"/", "/">>)), i)

\* Parser::validate_all_blocks_are_declared
validate_all_blocks_are_declared(p) ==
    IF \A entry \in p.block_targets :
          \E k \in 1..Len(p.blocks_with_declarations) :
              p.blocks_with_declarations[k] = entry[1]
    THEN [p EXCEPT !.status = "ok"]
    ELSE [p EXCEPT !.status = "err"]

\* the labels and the lines the sources are made of
Labels == {<<"a">>, <<"b">>, <<"_", "c">>}

Declaration(label) == label \o <<":">>
JumpLine(label) == <<" ", "J", "U", "M", "P", " ", "#">> \o label
JumpEitherLine(t, f) ==
    <<" ", "J", "U", "M", "P", "_", "E", "I", "T", "H", "E", "R", " ", "#">> \o t
        \o <<" ", "#">> \o f

SourceLines ==
    {Declaration(label) : label \in Labels}
    \cup {JumpLine(label) : label \in Labels}
    \cup {JumpEitherLine(<<"a">>, <<"b">>), JumpEitherLine(<<"b">>, <<"_", "c">>)}
    \cup {<<" ", "R", "E", "T">>, <<" ", "/", "/", " ", "x">>}

MaxLines == 4

Sources == UNION {[1..n -> SourceLines] : n \in 0..MaxLines}

InitParse ==
    /\ overflow_checks \in BOOLEAN
    /\ PipelineIdle
    /\ \E code \in Sources :
          call = [fn |-> "parse", code |-> code, line_idx |-> 0, parser |-> NewParser]

\* the loop of Parser::parse takes the next line; an Err leaves with `?`
ParseLine ==
    /\ call.fn = "parse"
    /\ call.parser.status = "running"
    /\ call.line_idx < Len(call.code)
    /\ call' = [call EXCEPT !.line_idx = @ + 1,
                            !.parser = parse_line(@, call.code[call.line_idx + 1],
                                                  call.line_idx + 1)]
    /\ UNCHANGED <<overflow_checks, pipeline_vars>>

\* after the last line: validate_all_blocks_are_declared()?; Ok(self.program)
ParseEnd ==
    /\ call.fn = "parse"
    /\ call.parser.status = "running"
    /\ call.line_idx = Len(call.code)
    /\ call' = [call EXCEPT !.parser = validate_all_blocks_are_declared(@)]
    /\ UNCHANGED <<overflow_checks, pipeline_vars>>

SpecParse == InitParse /\ [][ParseLine \/ ParseEnd]_vars

\* ---------------------------------------------------------- the pipeline
\* main.rs 102-180
sample_loop_program(iters) ==
    <<BasicBlock(<<Store(5), LoadImmediate(Zero64), SetLocal(0), Load(5),
                   LoadImmediate(Zero64), Store(6), Jump(4)>>),
      BasicBlock(<<Exit>>),
      BasicBlock(<<LoadImmediate(Zero64), Jump(5)>>),
      BasicBlock(<<GetLocal(0), Store(7), LoadImmediate(iters), LessThan(7),
                   JumpConditional(3, 6)>>),
      BasicBlock(<<Store(6), GetLocal(0), Increment, SetLocal(0), Jump(4)>>),
      BasicBlock(<<Load(6), Jump(2)>>)>>

ProgramValues == {Zero64, One64, Top64, Max64, Beef64, V64(0, 1, 0, 0), V64(0, 0, 1, 0),
                  V64(0, 0, 0, 1)}

Programs ==
    {sample_loop_program(FromInt(n)) : n \in 0..MaxIters}
    \cup {<<BasicBlock(<<LoadImmediate(v), Exit>>)>> : v \in ProgramValues}
    \cup {<<BasicBlock(<<LoadImmediate(c), JumpConditional(2, 3)>>),
            BasicBlock(<<LoadImmediate(One64), SetLocal(0), Exit>>),
            BasicBlock(<<LoadImmediate(Two64), SetLocal(0), Exit>>)>> : c \in {Zero64, One64, Top64}}
    \cup {<<BasicBlock(<<LoadImmediate(a), Store(1), LoadImmediate(b), LessThan(1), Exit>>)>> :
            a \in {Zero64, One64, Top64, Max64}, b \in {Zero64, One64, Top64, Max64}}
    \cup {<<BasicBlock(<<Jump(2)>>), BasicBlock(<<LoadImmediate(One64), Exit>>)>>,
          <<BasicBlock(<<Exit>>), BasicBlock(<<Increment, Load(1), Jump(2)>>)>>,
          <<BasicBlock(<<Increment, Load(1), Jump(1)>>)>>,
          <<BasicBlock(<<Jump(1)>>)>>,
          <<BasicBlock(<<Breakpoint, Jump(1)>>)>>,
          <<BasicBlock(<<JumpConditional(1, 1)>>)>>,
          <<BasicBlock(<<JumpConditional(2, 2)>>), BasicBlock(<<Exit>>)>>,
          <<BasicBlock(<<Increment, Exit>>)>>,
          <<BasicBlock(<<LoadImmediate(Max64), Increment, Exit>>)>>,
          <<BasicBlock(<<LoadImmediate(One64)>>), BasicBlock(<<Increment, Exit>>)>>,
          <<BasicBlock(<<GetLocal(0), Increment, SetLocal(0), Exit>>)>>,
          <<BasicBlock(<<LoadRandom(Two64), Exit>>)>>,
          <<BasicBlock(<<Breakpoint, Exit>>)>>,
          <<BasicBlock(<<Load(4096), Exit>>)>>,
          <<BasicBlock(<<Store(4096), Exit>>)>>,
          <<BasicBlock(<<Load(4095), Exit>>)>>,
          <<BasicBlock(<<>>)>>,
          <<>>}

\* VM::new(8, 1) of main.rs 7 with some of its cells set
InitialVMs ==
    {VM(<<a, r, Zero64, Zero64, Zero64, Zero64, Zero64, Zero64>>, <<l>>) :
        a \in {Zero64, Max64}, r \in {Zero64, Top64}, l \in {Zero64, One64}}

Init ==
    /\ overflow_checks \in BOOLEAN
    /\ call = Idle
    /\ program \in Programs
    /\ output = <<>>
    /\ block_offsets = <<>>
    /\ emitted = <<>>
    /\ pc = LowerPos(program, 1, 0)
    /\ vm \in InitialVMs
    /\ machine = NotStarted
    /\ interp = NotStarted

Next ==
    \/ LowerBlock \/ LowerInstruction \/ Link \/ LinkAgain
    \/ JitStart \/ JitStep \/ HostCall \/ InterpStart \/ InterpStep

Spec == Init /\ [][Next]_vars

\* --------------------------------- the code run twice, side by side
\* what X4 and X5 hold in the second execution when the code is entered
ScratchValues == {<<Zero64, Max64>>, <<Max64, One64>>, <<One64, One64>>}

\* Executable::run on two copies of the VM state: the second thread differs
\* from the first in X4 and X5 only
ScratchStart ==
    /\ pc.phase = "compiled"
    /\ machine = NotStarted
    /\ call = Idle
    /\ machine' = Machine(vm, "running")
    /\ \E scratch \in ScratchValues :
          call' = [fn |-> "second", x4 |-> scratch[1], x5 |-> scratch[2],
                   machine |-> [Machine(vm, "running") EXCEPT !.x[GPR0] = scratch[1],
                                                              !.x[GPR1] = scratch[2]]]
    /\ UNCHANGED <<overflow_checks, program, output, block_offsets, emitted, pc, vm, interp>>

\* both threads execute one instruction
ScratchStep ==
    /\ call.fn = "second"
    /\ machine.status = "running"
    /\ machine.steps < MaxSteps * 8
    /\ machine' = machine_step(output, machine)
    /\ call' = [call EXCEPT !.machine = machine_step(output, @)]
    /\ UNCHANGED <<overflow_checks, program, output, block_offsets, emitted, pc, vm, interp>>

\* ParkMiller::next returns the same value to both
ScratchCall ==
    /\ call.fn = "second"
    /\ machine.status = "call"
    /\ \E result \in HostResults(machine.x[0]) :
          /\ machine' = host_return(machine, result)
          /\ call' = [call EXCEPT !.machine = host_return(@, result)]
    /\ UNCHANGED <<overflow_checks, program, output, block_offsets, emitted, pc, vm, interp>>

SpecScratch ==
    Init /\ [][LowerBlock \/ LowerInstruction \/ Link \/ ScratchStart \/ ScratchStep
               \/ ScratchCall]_vars

\* ------------------------------------------ the same Program compiled twice
\* Jit::compile(&program) called again on the Program the first call worked
\* on: a new Jit (mod.rs 16), the blocks with the jumps_to_here the first
\* call pushed; the first Jit is kept in `call` for comparison
CompileAgain ==
    /\ pc.phase = "compiled"
    /\ call = Idle
    /\ call' = [fn |-> "compile", output |-> output, block_offsets |-> block_offsets]
    /\ output' = <<>>
    /\ block_offsets' = <<>>
    /\ emitted' = <<>>
    /\ pc' = LowerPos(program, 1, 0)
    /\ UNCHANGED <<overflow_checks, program, vm, machine, interp>>

SpecRecompile ==
    Init /\ [][LowerBlock \/ LowerInstruction \/ Link \/ CompileAgain]_vars

\* ------------------------------------------- claims: the two executions
\* both runs are over: the generated code stopped, the interpreter returned
RunsOver ==
    /\ machine.status \in {"returned", "trap", "fault"}
    /\ interp.status \in {"ok", "err", "panic", "unsupported"}

\* C1: whenever run_interpreted returns Ok on a program and an initial VM
\* state, the code Jit::compile produced for that program, run on a copy of
\* that state, returns with registers and locals equal to the interpreter's.
C1_JitRefinesInterpreter ==
    (RunsOver /\ interp.status = "ok") =>
        /\ machine.status = "returned"
        /\ machine.registers = interp.vm.registers
        /\ machine.locals = interp.vm.locals

\* ------------------------------------------------- claims: Jit::compile
\* every recorded jump site of the program, block after block
RECURSIVE AllSites(_, _)
AllSites(blocks, b) ==
    IF b > Len(blocks) THEN <<>>
    ELSE blocks[b].jumps_to_here \o AllSites(blocks, b + 1)

\* C4: when the linker is applied a second time to the recorded pairs, each
\* application leaves the code buffer as it was and meets a branch opcode it
\* recognizes.
C4_LinkIdempotent ==
    [][LinkAgain => (output' = output /\ pc'.phase # "panic")]_vars

\* the second pass is over for a program with a backward and a forward branch
C4_Witness ==
    /\ pc.phase = "relinked"
    /\ Len(AllSites(program, 1)) >= 4
    /\ \E b \in 1..Len(program) : \E j \in 1..Len(program[b].jumps_to_here) :
          program[b].jumps_to_here[j] > program[b].offset

\* C5: the buffer length is a multiple of 4 after every emit32, after every
\* lowered instruction and after every link step, and a link step leaves the
\* length as it was.
C5_LengthMultipleOf4 ==
    [][/\ Len(output') % 4 = 0
       /\ \A k \in 1..Len(emitted') : emitted'[k] % 4 = 0
       /\ (Link \/ LinkAgain) => Len(output') = Len(output)]_vars

\* an instruction of several words was lowered
C5_Witness ==
    /\ pc.phase = "lower"
    /\ Len(emitted) >= 3
    /\ emitted[Len(emitted)] = Len(output)

\* the top six bits of the instruction word at a byte offset
TopBits(code, offset) == code[offset + 4] \div 4

IsBranchAt(code, offset) == TopBits(code, offset) \in {OP_JMP, OP_JEQ}

\* the offsets of the branch words of the code from byte `from` on
BranchOffsets(code, from) ==
    {o \in from..(Len(code) - 4) : (o - from) % 4 = 0 /\ IsBranchAt(code, o)}

SeqToSet(q) == {q[k] : k \in 1..Len(q)}

NoDuplicates(q) == \A j, k \in 1..Len(q) : q[j] = q[k] => j = k

\* the recorded sites are the branch words of the buffer, each once
JumpSitesMatch(blocks, code) ==
    /\ NoDuplicates(AllSites(blocks, 1))
    /\ SeqToSet(AllSites(blocks, 1)) = BranchOffsets(code, 0)
    /\ \A o \in SeqToSet(AllSites(blocks, 1)) : o % 4 = 0

\* what lowering `instruction` adds to the lists: the new B.cond site to its
\* false target, the new B site to its true (or only) target
NewSites(instruction, code, from, target) ==
    (IF instruction.op = "JumpConditional" /\ instruction.false_target = target
     THEN SelectSeq(<<from + 8>>, LAMBDA o : o + 4 <= Len(code) /\ TopBits(code, o) = OP_JEQ)
     ELSE <<>>)
    \o
    (IF (instruction.op = "JumpConditional" /\ instruction.true_target = target)
        \/ (instruction.op = "Jump" /\ instruction.target = target)
     THEN SelectSeq(<<IF instruction.op = "Jump" THEN from ELSE from + 12>>,
                    LAMBDA o : o + 4 <= Len(code) /\ TopBits(code, o) = OP_JMP)
     ELSE <<>>)

\* C6: every lowering step keeps the recorded jump sites and the branch words
\* of the buffer in one-to-one correspondence (each site a multiple of 4 and
\* recorded once), and records each new branch in the list of its target.
C6_JumpSitesRecorded ==
    [][(LowerInstruction /\ pc'.phase # "panic") =>
          /\ JumpSitesMatch(program', output')
          /\ \A t \in 1..Len(program) :
                /\ program'[t].jumps_to_here =
                      program[t].jumps_to_here
                          \o NewSites(program[pc.block].instructions[pc.instr], output',
                                      Len(output), t)
          /\ Cardinality(BranchOffsets(output', Len(output))) =
                CASE program[pc.block].instructions[pc.instr].op = "Jump" -> 1
                  [] program[pc.block].instructions[pc.instr].op = "JumpConditional" -> 2
                  [] OTHER -> 0]_vars

\* lowering is over for a program with conditional and unconditional jumps
C6_Witness ==
    /\ pc.phase = "link"
    /\ pc.block = 2 /\ pc.jump = 1
    /\ Len(AllSites(program, 1)) >= 5
    /\ JumpSitesMatch(program, output)

\* the native sequence of one VM instruction
NativeSequence(instruction) == lower_instruction(Asm(<<>>, program), instruction).output

\* the concatenation of the native sequences of the instructions before
\* instruction i of block b (all of block b when i exceeds its length)
RECURSIVE Lowering(_, _, _)
Lowering(blocks, b, i) ==
    IF i > 1 THEN Lowering(blocks, b, i - 1) \o NativeSequence(blocks[b].instructions[i - 1])
    ELSE IF b > 1 THEN Lowering(blocks, b - 1, Len(blocks[b - 1].instructions) + 1)
    ELSE <<>>

\* the blocks lowering has reached
BlocksReached ==
    IF pc.phase = "lower" THEN (IF pc.instr = 0 THEN pc.block - 1 ELSE pc.block)
    ELSE Len(program)

\* byte k of the buffer belongs to a recorded branch site
InSite(k) == \E o \in SeqToSet(AllSites(program, 1)) : k - 1 \in o..(o + 3)

\* the buffer is `code`, but for the branch words the linker rewrites
SameButSites(code) ==
    /\ Len(output) = Len(code)
    /\ \A k \in 1..Len(code) : InSite(k) \/ output[k] = code[k]

\* C7: while lowering, the buffer is the concatenation of the native
\* sequences of the instructions lowered so far, in block and instruction
\* order (afterwards too, but for the rewritten branch words); the offset of
\* every block reached is the length of the code of the blocks before it, so
\* the first offset is 0 and the offsets never decrease.
C7_CodeIsConcatenation ==
    (pc.phase \notin {"idle", "panic"} /\ machine = NotStarted) =>
        /\ Len(block_offsets) = BlocksReached
        /\ \A b \in 1..BlocksReached :
              /\ program[b].offset = Len(Lowering(program, b, 1))
              /\ block_offsets[b] = program[b].offset
              /\ b = 1 => program[b].offset = 0
              /\ b > 1 => program[b - 1].offset <= program[b].offset
        /\ pc.phase = "lower" => output = Lowering(program, pc.block, Max(pc.instr, 1))
        /\ pc.phase # "lower" => SameButSites(Lowering(program, Len(program) + 1, 1))

\* the sample loop is lowered: six blocks at increasing offsets
C7_Witness ==
    /\ pc.phase = "link"
    /\ Len(program) = 6
    /\ \A b \in 2..6 : program[b - 1].offset < program[b].offset
    /\ output = Lowering(program, 7, 1)

\* ------------------------------------------------------ claims: the linker
LinkDone == call.fn = "link_and_rewrite" /\ call.done

\* the opcode and the width of the immediate field of the branch at the site
IsB(jump_instr) == jump_instr[4] \div 4 = OP_JMP
FieldWidth(jump_instr) == IF IsB(jump_instr) THEN 26 ELSE 19

\* the immediate field of a linked branch word
Immediate(jump_instr, w) == IF IsB(jump_instr) THEN Bits(w, 25, 0) ELSE Bits(w, 23, 5)

\* (target_offset - site) / 4, on the integers
DeltaWords(target_offset, instr_offset) == TruncDiv(target_offset - instr_offset, 4)

\* the two's complement encoding of d in a field of `bits` bits
TwosComplement(d, bits) == ((d % Pow2(bits)) + Pow2(bits)) % Pow2(bits)

FitsField(d, bits) == d >= -Pow2(bits - 1) /\ d < Pow2(bits - 1)

\* C2: the immediate field a linked branch site receives is the two's
\* complement encoding of (target offset - site) / 4, whatever the offsets.
C2_ImmediateIsDelta ==
    (LinkDone /\ call.result.status = "ok") =>
        Immediate(call.jump_instr, call.result.value) =
            TwosComplement(DeltaWords(call.target_offset, call.instr_offset),
                           FieldWidth(call.jump_instr))

\* C3: a pair whose word delta does not fit the immediate field of its
\* branch is not linked: link_and_rewrite fails instead of returning a word.
C3_OutOfRangeFails ==
    (LinkDone /\ ~FitsField(DeltaWords(call.target_offset, call.instr_offset),
                            FieldWidth(call.jump_instr)))
        => call.result.status # "ok"

\* ----------------------------------------------- claims: load_immediate64
\* the thread ran the whole MOVZ/MOVK sequence
MovImmDone ==
    /\ call.fn = "load_immediate64"
    /\ call.done
    /\ machine.status = "running"
    /\ machine.pc = Len(output)

\* C8: after the MOVZ/MOVK sequence of load_immediate64(dst, imm) has run,
\* dst holds exactly imm, whatever it held before.
C8_MovImmLoadsImm == MovImmDone => machine.x[call.dst] = call.imm

\* a sequence with a MOVK above a zero halfword has run over a register
\* that held all ones
C8_Witness ==
    /\ MovImmDone
    /\ call.imm = V64(0, 0, 1, 0)
    /\ Len(output) = 12
    /\ machine.x[call.dst] = call.imm

\* ----------------------------------------------------- claims: the encoder
EncodeDone == call.fn = "encode" /\ call.done

\* the words a routine appended after the NOP the buffer held
Appended(code) == [k \in 1..((Len(code) - 4) \div 4) |-> WordAt(code, 4 * k)]

\* the fields of the A64 encodings (Arm ARM C6.2), by bit position
Rd(w) == Bits(w, 4, 0)
Rn(w) == Bits(w, 9, 5)
Rm(w) == Bits(w, 20, 16)
FieldImm12(w) == Bits(w, 21, 10)
FieldImm16(w) == Bits(w, 20, 5)

\* word w is the instruction the call e asks for; k is its place in the
\* sequence of emit_mov_imm
IsEncodingOf(e, w, k) ==
    CASE e.routine = "emit_mov_reg" ->
           Bits(w, 31, 21) = \b10101010000 /\ Rm(w) = e.b /\ Bits(w, 15, 10) = 0
           /\ Rn(w) = 31 /\ Rd(w) = e.a
      [] e.routine = "emit_mov_imm" ->
           /\ Bits(w, 31, 23) = (IF k = 1 THEN \b110100101 ELSE \b111100101)
           /\ Bits(w, 22, 21) = k - 1
           /\ FieldImm16(w) = e.imm[k]
           /\ Rd(w) = e.a
      [] e.routine = "emit_str" ->
           Bits(w, 31, 22) = \b1111100100 /\ FieldImm12(w) = e.c /\ Rn(w) = e.a
           /\ Rd(w) = e.b
      [] e.routine = "emit_ldr" ->
           Bits(w, 31, 22) = \b1111100101 /\ FieldImm12(w) = e.c /\ Rn(w) = e.b
           /\ Rd(w) = e.a
      [] e.routine = "emit_add" ->
           Bits(w, 31, 22) = \b1001000100 /\ FieldImm12(w) = e.c /\ Rn(w) = e.b
           /\ Rd(w) = e.a
      [] e.routine = "emit_sub" ->
           Bits(w, 31, 22) = \b1101000100 /\ FieldImm12(w) = e.c /\ Rn(w) = e.b
           /\ Rd(w) = e.a
      [] e.routine = "emit_incr" ->
           Bits(w, 31, 22) = \b1001000100 /\ FieldImm12(w) = 1 /\ Rn(w) = e.a
           /\ Rd(w) = e.a
      [] e.routine = "emit_cmp_reg" ->
           Bits(w, 31, 21) = \b11101011000 /\ Rm(w) = e.b /\ Bits(w, 15, 10) = 0
           /\ Rn(w) = e.a /\ Rd(w) = 31
      [] e.routine = "emit_cmp_imm" ->
           Bits(w, 31, 22) = \b1111000100 /\ FieldImm12(w) = e.c /\ Rn(w) = e.a
           /\ Rd(w) = 31
      [] e.routine = "emit_branch" -> Bits(w, 31, 26) = \b000101 /\ Bits(w, 25, 0) = e.c
      [] e.routine = "emit_branch_eq" ->
           Bits(w, 31, 24) = \b01010100 /\ Bits(w, 23, 5) = e.c /\ Bits(w, 4, 0) = 0
      [] e.routine = "emit_branch_with_link" ->
           Bits(w, 31, 10) = \b1101011000111111000000 /\ Rn(w) = e.a /\ Rd(w) = 0
      [] e.routine = "emit_ret" ->
           Bits(w, 31, 10) = \b1101011001011111000000 /\ Rn(w) = 30 /\ Rd(w) = 0
      [] e.routine = "emit_cset" ->
           Bits(w, 31, 21) = \b10011010100 /\ Rm(w) = 31 /\ Bits(w, 11, 10) = 1
           /\ Rn(w) = 31 /\ Rd(w) = e.a
      [] e.routine = "emit_brk" ->
           Bits(w, 31, 21) = \b11010100001 /\ FieldImm16(w) = e.c /\ Rd(w) = 0
      [] e.routine = "emit_nop" -> w = U32(\hD503, \h201F)

\* C11: every encoder routine appends, to what the buffer held, one
\* little-endian word per instruction (one, but for the MOVZ/MOVK sequence),
\* whose fixed bits are those of the A64 encoding of the form and whose
\* fields hold the operands, for every operand in the range of its field.
C11_EncoderMatchesTemplates ==
    EncodeDone =>
        /\ ~call.result.panicked
        /\ Len(call.result.output) % 4 = 0
        /\ WordAt(call.result.output, 0) = NopWord
        /\ Len(Appended(call.result.output)) >= 1
        /\ call.args.routine # "emit_mov_imm" => Len(Appended(call.result.output)) = 1
        /\ \A k \in 1..Len(Appended(call.result.output)) :
              IsEncodingOf(call.args, Appended(call.result.output)[k], k)

\* an LDR with distinct base, target and a non-zero offset was encoded
C11_Witness ==
    /\ EncodeDone
    /\ call.args.routine = "emit_ldr"
    /\ call.args.a = GPR0 /\ call.args.b = RegisterArrayBase /\ call.args.c = 4095
    /\ call.result.output = LeBytes(NopWord) \o LeBytes(U32(\hF97F, \hFC24))

\* ------------------------------------------ claims: the MOVZ, MOVK sequence
MovImmEmitted == call.fn = "load_immediate64" /\ call.done

\* the instructions of the buffer, one word each
Words(code) == [k \in 1..(Len(code) \div 4) |-> WordAt(code, 4 * (k - 1))]

IsMovz(w, dst, imm16) ==
    Bits(w, 31, 21) = \b11010010100 /\ FieldImm16(w) = imm16 /\ Rd(w) = dst

IsMovk(w, dst, hw, imm16) ==
    /\ Bits(w, 31, 23) = \b111100101
    /\ Bits(w, 22, 21) = hw
    /\ FieldImm16(w) = imm16
    /\ Rd(w) = dst

\* the halfword indices 1..3 that hold a non-zero value
NonZeroUpper(imm) == {hw \in 1..3 : imm[hw + 1] # 0}

\* the index of the highest non-zero halfword, 0 when there is none above
HighestHalfword(imm) ==
    IF NonZeroUpper(imm) = {} THEN 0
    ELSE CHOOSE hw \in NonZeroUpper(imm) : \A other \in NonZeroUpper(imm) : other <= hw

\* the words are a MOVZ of the low halfword and then one MOVK for each index
\* of hws, in rising order
IsMovSequence(ws, dst, imm, hws) ==
    /\ Len(ws) = 1 + Cardinality(hws)
    /\ IsMovz(ws[1], dst, imm[1])
    /\ \A hw \in hws :
          IsMovk(ws[1 + Cardinality({h \in hws : h <= hw})], dst, hw, imm[hw + 1])

\* C22 as stated: load_immediate64 emits a MOVZ of the low halfword and one
\* MOVK for each non-zero upper halfword, none for a zero halfword, so
\* 1 + (number of non-zero upper halfwords) instructions.
C22_MovkPerNonZeroHalfword ==
    MovImmEmitted =>
        IsMovSequence(Words(output), call.dst, call.imm, NonZeroUpper(call.imm))

\* C22: load_immediate64 emits a MOVZ of the low halfword and one MOVK, with
\* the matching hw index, for each halfword from 1 up to the highest non-zero
\* one, a zero halfword below it included; at most 4 instructions.
C22_MovkUpToHighestHalfword ==
    MovImmEmitted =>
        /\ IsMovSequence(Words(output), call.dst, call.imm,
                         1..HighestHalfword(call.imm))
        /\ Len(output) <= 16

\* an immediate with a zero halfword below a non-zero one has been emitted
C22_Witness ==
    /\ MovImmEmitted
    /\ call.imm = V64(1, 0, 0, 65535)
    /\ Len(output) = 16
    /\ IsMovk(Words(output)[2], call.dst, 1, 0)

\* ------------------------------------------------------ claims: less_than
LessThanDone ==
    /\ call.fn = "less_than"
    /\ call.done
    /\ machine.status = "running"
    /\ machine.pc = Len(output)

\* a < b as signed 64-bit values
SignedLess64(a, b) ==
    IF Sign64(a) # Sign64(b) THEN Sign64(a) = 1 ELSE Less64(a, b)

\* CSET Xd, cond is CSINC Xd, XZR, XZR, invert(cond); LT is 1011, so the
\* word of CSET Xd, LT holds 1010 (GE) in its condition field
IsCsetLT(w, dst) ==
    /\ Bits(w, 31, 21) = \b10011010100 /\ Rm(w) = 31 /\ Bits(w, 11, 10) = 1
    /\ Rn(w) = 31 /\ Rd(w) = dst
    /\ Bits(w, 15, 12) = \b1010

IsCmp(w, lhs, rhs) ==
    /\ Bits(w, 31, 21) = \b11101011000 /\ Rm(w) = rhs /\ Bits(w, 15, 10) = 0
    /\ Rn(w) = lhs /\ Rd(w) = 31

\* C12: less_than(dst, src) emits CMP src, dst and then CSET dst, LT, and
\* after the two instructions dst holds 1 if src < dst as signed 64-bit
\* values and 0 otherwise.
C12_LessThanIsSignedLT ==
    LessThanDone =>
        /\ Len(output) = 8
        /\ IsCmp(WordAt(output, 0), call.src, call.dst)
        /\ IsCsetLT(WordAt(output, 4), call.dst)
        /\ machine.x[call.dst] =
              (IF SignedLess64(call.src_value, call.dst_value) THEN One64 ELSE Zero64)

\* ----------------------------------------------- claims: JumpConditional
\* the instruction LowerInstruction lowers
Lowers(op) ==
    /\ LowerInstruction
    /\ pc'.phase # "panic"
    /\ program[pc.block].instructions[pc.instr].op = op

\* the four words of JumpConditional from offset `from` of the code
IsConditionalSequence(code, from) ==
    /\ Len(code) = from + 16
    /\ IsEncodingOf([routine |-> "emit_ldr", a |-> GPR0, b |-> RegisterArrayBase, c |-> 0],
                    WordAt(code, from), 1)
    /\ IsEncodingOf([routine |-> "emit_cmp_imm", a |-> GPR0, c |-> 0],
                    WordAt(code, from + 4), 1)
    /\ TopBits(code, from + 8) = OP_JEQ /\ Bits(WordAt(code, from + 8), 4, 0) = 0
    /\ TopBits(code, from + 12) = OP_JMP

\* lowering JumpConditional(t, f) appends the sequence and records the site
\* of its B.EQ for f and then the site of its B for t
ConditionalLowered(instruction) ==
    /\ SubSeq(output', 1, Len(output)) = output
    /\ IsConditionalSequence(output', Len(output))
    /\ \A b \in 1..Len(program) :
          program'[b].jumps_to_here =
              program[b].jumps_to_here
                  \o (IF instruction.false_target = b THEN <<Len(output) + 8>> ELSE <<>>)
                  \o (IF instruction.true_target = b THEN <<Len(output) + 12>> ELSE <<>>)

\* the block in whose list the site is recorded
SiteTarget(site) ==
    CHOOSE b \in 1..Len(program) : site \in SeqToSet(program[b].jumps_to_here)

\* the sites of the B.EQ words of the linked code
ConditionalSites == {o \in SeqToSet(AllSites(program, 1)) : TopBits(output, o) = OP_JEQ}

\* the thread is at the B.EQ, or at the B, of a conditional jump and takes it
ConditionalTaken ==
    /\ JitStep
    /\ \A site \in ConditionalSites :
          /\ machine.pc = site =>
                machine'.pc = (IF machine.registers[1] = Zero64
                               THEN program[SiteTarget(site)].offset ELSE site + 4)
          /\ machine.pc = site + 4 =>
                machine'.pc = program[SiteTarget(site + 4)].offset

\* the instruction the interpreter executes next
InterpExecutes(op) ==
    /\ InterpStep
    /\ interp.instruction_index < Len(program[interp.current_block].instructions)
    /\ program[interp.current_block].instructions[interp.instruction_index + 1].op = op

\* the block the interpreter chooses at JumpConditional(t, f)
InterpChoice(instruction) ==
    IF interp.vm.registers[1] # Zero64 THEN instruction.true_target
    ELSE instruction.false_target

\* the program that writes 1 to local 0 in the true target and 2 in the
\* false target
ChoiceProgram(c) ==
    <<BasicBlock(<<LoadImmediate(c), JumpConditional(2, 3)>>),
      BasicBlock(<<LoadImmediate(One64), SetLocal(0), Exit>>),
      BasicBlock(<<LoadImmediate(Two64), SetLocal(0), Exit>>)>>

\* the instructions and the targets of the program, without the offsets and
\* the sites compiling adds
Source(blocks) == [b \in 1..Len(blocks) |-> blocks[b].instructions]

CallDone ==
    /\ call.fn = "call_into_rust"
    /\ call.done
    /\ machine.status = "running"
    /\ machine.pc = Len(output)

\* the slot the i-th push stores to: SP is lowered by 64, the store is at 8
PushSlot(i) == StackSlot(Sub64(StackTop, FromInt(64 * i - 8)))

\* C14: the sequence of call_into_rust(dst, f, arg0) is stack-balanced and
\* register-preserving for every dst: SP stays a multiple of 16, f is called
\* with arg0 in X0 while the six pushed values lie in six slots, and at the
\* end SP and every saved register but dst hold what they held before the
\* sequence and dst holds what f returned.
C14_CallPreservesRegisters ==
    call.fn = "call_into_rust" =>
        /\ AddrInt(machine.sp) % 16 = 0
        /\ machine.status = "call" =>
              /\ machine.x[0] = call.arg0
              /\ \A i \in 1..6 : machine.stack[PushSlot(i)] = call.x[SavedRegisters[i]]
        /\ CallDone =>
              /\ machine.sp = StackTop
              /\ \A i \in 1..6 :
                    SavedRegisters[i] # call.dst =>
                        machine.x[SavedRegisters[i]] = call.x[SavedRegisters[i]]
              /\ machine.x[call.dst] = call.result

\* ---------------------------------------------------- claims: Executable
\* the thread disabled write protection and has not enabled it again
WriteProtectionOff == Len(call.hooks) > 0 /\ call.hooks[Len(call.hooks)] = 0

\* C15: in Executable::new write protection is disabled when the copy
\* begins and enabled again after it; on every path out of Executable::new,
\* return or panic, a disable has been followed by an enable; the code is
\* entered only with write protection enabled and the whole code copied.
C15_WriteXorExecute ==
    call.fn = "Executable::new" =>
        /\ call.step \in {"copying", "copied"} => WriteProtectionOff
        /\ call.step \in {"returned", "panic"} => ~WriteProtectionOff
        /\ call.step = "running" => (~WriteProtectionOff /\ call.copied = call.len)

\* n rounded up to the next multiple of the granularity, on the integers
RoundUp(n) == IF n % Granularity = 0 THEN n ELSE n + (Granularity - (n % Granularity))

\* C16: for every length n >= 1 of the code, Executable::new maps n rounded
\* up to a multiple of the granularity and copies the n bytes into it: it
\* rejects no length, and the copy ends within the mapping.
C16_EveryLengthMapped ==
    (call.fn = "Executable::new" /\ call.len >= 1) =>
        /\ call.step # "panic"
        /\ call.step # "start" => call.mapping = RoundUp(call.len)
        /\ call.copied <= call.mapping
        /\ call.step \in {"copied", "returned", "running"} => call.copied = call.len

\* ------------------------------------------------ claims: the sample loop
\* VM::new(8, 1) (main.rs 7)
ZeroVM ==
    VM(<<Zero64, Zero64, Zero64, Zero64, Zero64, Zero64, Zero64, Zero64>>, <<Zero64>>)

\* the program is sample_loop_program(n) and the VM starts zeroed
IsSampleLoop(n) ==
    Source(program) = Source(sample_loop_program(FromInt(n))) /\ vm = ZeroVM

\* the generated code is over with these values, and within 28 n + 31
\* instructions
JitLoopEnds(n, local, accum) ==
    /\ machine.status \in {"idle", "running", "returned"}
    /\ machine.status = "running" => machine.steps < 28 * n + 31
    /\ machine.status = "returned" =>
          /\ machine.locals = <<local>>
          /\ machine.registers[1] = accum

\* run_interpreted is over with these values, and within 9 n + 12 instructions
InterpLoopEnds(n, local, accum) ==
    /\ interp.status \in {"idle", "running", "ok"}
    /\ interp.status = "running" => interp.steps <= 9 * n + 12
    /\ interp.status = "ok" =>
          /\ interp.vm.locals = <<local>>
          /\ interp.vm.registers[1] = accum

C18_ScratchIndependent ==
    call.fn = "second" =>
        /\ machine.registers = call.machine.registers
        /\ machine.locals = call.machine.locals
        /\ machine.pc = call.machine.pc
        /\ machine.status = call.machine.status

\* the sample loop has returned in two executions that began with different
\* values in X4 and in X5
C18_Witness ==
    /\ call.fn = "second"
    /\ call.x4 # Scratch64 /\ call.x5 # Scratch64 /\ call.x4 # call.x5
    /\ Source(program) = Source(sample_loop_program(FromInt(MaxIters)))
    /\ machine.status = "returned"
    /\ call.machine.status = "returned"
    /\ call.machine.locals = <<FromInt(MaxIters)>>

\* -------------------------------------------------------- claims: Parser
ParseDone == call.fn = "parse" /\ call.parser.status # "running"

\* the labels the JUMP and JUMP_EITHER lines of the source refer to
ReferencedLabels(code) ==
    {label \in Labels :
        \E i \in 1..Len(code) :
            \/ code[i] = JumpLine(label)
            \/ \E other \in Labels :
                  code[i] \in {JumpEitherLine(label, other), JumpEitherLine(other, label)}}

\* the line that declares the label, or 0
DeclarationOf(code, label) ==
    IF \E i \in 1..Len(code) : code[i] = Declaration(label)
    THEN CHOOSE i \in 1..Len(code) : code[i] = Declaration(label)
    ELSE 0

DeclaredLabels(code) == {label \in Labels : DeclarationOf(code, label) # 0}

IsDeclaration(line) == \E label \in Labels : line = Declaration(label)
IsComment(line) == line = <<" ", "/", "/", " ", "x">>

\* no label is declared twice (parse_block_start asserts it)
UniqueDeclarations(code) ==
    \A i, j \in 1..Len(code) : (IsDeclaration(code[i]) /\ code[i] = code[j]) => i = j

\* a source of the grammar: it begins with a block label, and no label is
\* declared twice
WellFormed(code) ==
    /\ \A i \in 1..Len(code) :
          (\A j \in 1..(i - 1) : IsComment(code[j])) => (IsDeclaration(code[i]) \/ IsComment(code[i]))
    /\ UniqueDeclarations(code)

\* the instruction lines of the block the label declares
BodyLines(code, label) ==
    {i \in (DeclarationOf(code, label) + 1)..Len(code) :
        /\ ~IsDeclaration(code[i]) /\ ~IsComment(code[i])
        /\ \A j \in (DeclarationOf(code, label) + 1)..(i - 1) : ~IsDeclaration(code[j])}

\* the lines the instructions of a block of the program come from
LinesOf(block) == {block[k].line : k \in 1..Len(block)}

\* every jump of the program goes to the block its label declares
ResolvesToDeclarations(code, blocks) ==
    \A b \in 1..Len(blocks) : \A k \in 1..Len(blocks[b]) : \A label \in Labels :
        /\ (blocks[b][k].op = "Jump" /\ code[blocks[b][k].line] = JumpLine(label)) =>
              LinesOf(blocks[blocks[b][k].target]) = BodyLines(code, label)
        /\ (blocks[b][k].op = "JumpConditional"
            /\ \E other \in Labels : code[blocks[b][k].line] = JumpEitherLine(label, other)) =>
              LinesOf(blocks[blocks[b][k].true_target]) = BodyLines(code, label)
        /\ (blocks[b][k].op = "JumpConditional"
            /\ \E other \in Labels : code[blocks[b][k].line] = JumpEitherLine(other, label)) =>
              LinesOf(blocks[blocks[b][k].false_target]) = BodyLines(code, label)

\* the lines that refer to the label
ReferencesTo(code, label) ==
    {i \in 1..Len(code) :
        \/ code[i] = JumpLine(label)
        \/ \E other \in Labels :
              code[i] \in {JumpEitherLine(label, other), JumpEitherLine(other, label)}}

\* some label is referred to before the line that declares it
HasForwardReference(code) ==
    \E label \in Labels : \E i \in ReferencesTo(code, label) :
        DeclarationOf(code, label) > i

\* C19: Parser::parse returns an error whenever a label a JUMP or
\* JUMP_EITHER refers to is declared nowhere in the source (a source that
\* declares no label twice, which the parser asserts); a source of the
\* grammar that refers to a label declared later in the file, and to
\* declared labels only, is accepted, and every reference resolves to the
\* block of the declaration.
C19_UndeclaredLabelsRejected ==
    ParseDone =>
        /\ (UniqueDeclarations(call.code)
            /\ ~(ReferencedLabels(call.code) \subseteq DeclaredLabels(call.code))) =>
              call.parser.status = "err"
        /\ (WellFormed(call.code) /\ HasForwardReference(call.code)
            /\ ReferencedLabels(call.code) \subseteq DeclaredLabels(call.code)) =>
              /\ call.parser.status = "ok"
              /\ ResolvesToDeclarations(call.code, call.parser.blocks)

\* --------------------------------------------- claims: the interpreter
\* the instruction run_interpreted executed last
LastExecuted == program[interp.last[1]].instructions[interp.last[2] + 1]

\* the interpreter has just executed a jump and goes on
AfterJump ==
    /\ interp.status = "running"
    /\ interp.last # NoInstruction
    /\ LastExecuted.op \in {"Jump", "JumpConditional"}

\* the target the jump executed last has taken; the accumulator is as the
\* jump found it
TargetTaken(instruction) ==
    IF instruction.op = "Jump" THEN instruction.target
    ELSE IF interp.vm.registers[1] # Zero64 THEN instruction.true_target
    ELSE instruction.false_target

\* C20: after the interpreter has executed Jump t, or JumpConditional
\* choosing t, the instruction it executes next is instruction 0 of block t:
\* no instruction of the target block is skipped.
C20_JumpEntersAtFirstInstruction ==
    AfterJump =>
        /\ interp.current_block = TargetTaken(LastExecuted)
        /\ interp.instruction_index = 0

\* ------------------------------------------------------ claims: LessThan
\* the program that compares register 1, set to a, with the accumulator b
LessThanProgram(a, b) ==
    <<BasicBlock(<<LoadImmediate(a), Store(1), LoadImmediate(b), LessThan(1), Exit>>)>>

CompareOperands == {Zero64, One64, Top64, Max64}

\* registers[] after LessThanProgram(a, b) when LessThan 1 leaves 1 in the
\* accumulator iff a < b as 64-bit values, and changes nothing else
AfterLessThan(a, b) ==
    [vm.registers EXCEPT ![2] = a, ![1] = IF Less64(a, b) THEN One64 ELSE Zero64]

\* C21: for LessThan r the generated code and the interpreter leave the same
\* value in the accumulator for all 64-bit operands, those of 2^63 and more
\* included: 1 if registers[r] < registers[0] and 0 otherwise; no other
\* register and no local changes.
C21_LessThanAgrees ==
    \A a \in CompareOperands, b \in CompareOperands :
        Source(program) = Source(LessThanProgram(a, b)) =>
            /\ machine.status = "returned" =>
                  (machine.registers = AfterLessThan(a, b) /\ machine.locals = vm.locals)
            /\ interp.status = "ok" =>
                  (interp.vm.registers = AfterLessThan(a, b) /\ interp.vm.locals = vm.locals)

\* ----------------------------------------------- claims: the linked site
\* a step of the loop of mod.rs 89-94, in compile or in a second pass
LinkingStep == pc.phase \in {"link", "relink"}
LinkedSite == program[pc.block].jumps_to_here[pc.jump]

\* the opcode bits of a branch, and the condition and the zero bit of a B.cond
SameOpcode(before, after) ==
    /\ Bits(before, 31, 26) = Bits(after, 31, 26)
    /\ Bits(before, 31, 26) = OP_JEQ =>
          /\ Bits(before, 31, 24) = Bits(after, 31, 24)
          /\ Bits(before, 4, 0) = Bits(after, 4, 0)

OutsideSiteKept(before, after, site) ==
    /\ Len(after) = Len(before)
    /\ \A i \in 1..Len(before) : i \notin (site + 1)..(site + 4) => after[i] = before[i]

\* C23: linking a site changes only the immediate field of the 4-byte word at
\* the site: its opcode bits and, for B.cond, its low 5 bits stay as they
\* were, and no byte outside the site's 4 bytes changes.
C23_LinkChangesOnlyImmediate ==
    [][LinkingStep =>
          /\ OutsideSiteKept(output, output', LinkedSite)
          /\ LinkedSite + 4 <= Len(output) =>
                SameOpcode(WordAt(output, LinkedSite), WordAt(output', LinkedSite))]_vars

\* a B.cond and a B were linked and carry immediates other than the
\* placeholders they were emitted with
C23_Witness ==
    /\ pc.phase = "compiled"
    /\ \E site \in 0..(Len(output) - 4) :
          /\ site % 4 = 0
          /\ Bits(WordAt(output, site), 31, 24) = \b01010100
          /\ Bits(WordAt(output, site), 23, 5) # \hdead
          /\ Bits(WordAt(output, site), 4, 0) = 0
    /\ \E site \in 0..(Len(output) - 4) :
          /\ site % 4 = 0
          /\ Bits(WordAt(output, site), 31, 26) = OP_JMP
          /\ Bits(WordAt(output, site), 25, 0) # \hdeadaf

\* ------------------------------------- claims: register and local indices
AccessDone == call.fn = "access" /\ call.done
IsStoreRoutine(routine) == routine \in {"store_vm_register", "store_vm_local"}
IsRegisterRoutine(routine) == routine \in {"store_vm_register", "load_vm_register"}

\* LDR/STR (immediate, unsigned offset, 64-bit) Xt, [Xn, #imm12 * 8] with
\* Xn = X1 for the registers and X2 for the locals
IsAccessWord(w, routine, idx, reg) ==
    /\ Bits(w, 31, 22) = (IF IsStoreRoutine(routine) THEN \b1111100100 ELSE \b1111100101)
    /\ FieldImm12(w) = idx
    /\ Rn(w) = (IF IsRegisterRoutine(routine) THEN 1 ELSE 2)
    /\ Rd(w) = reg

\* the VM's arrays after the access ran, and the value the load must fetch
ArrayOf(v, routine) == IF IsRegisterRoutine(routine) THEN v.registers ELSE v.locals
AfterAccess(v, routine, idx, value) ==
    IF ~IsStoreRoutine(routine) THEN v
    ELSE IF IsRegisterRoutine(routine) THEN [v EXCEPT !.registers[idx + 1] = value]
    ELSE [v EXCEPT !.locals[idx + 1] = value]

AccessRan == AccessDone /\ machine.status = "running" /\ machine.pc = 4

\* C24: an access with an index of 2^12 or more fails when it is compiled,
\* a load and a store alike, and emits nothing; an accepted index idx gives
\* one LDR/STR that addresses element idx of the array at X1 (registers) or
\* X2 (locals).
C24_IndexChecked ==
    AccessDone =>
        /\ call.idx >= 4096 => (machine.status = "panic" /\ output = <<>>)
        /\ call.idx < 4096 =>
              /\ Len(output) = 4
              /\ IsAccessWord(WordAt(output, 0), call.routine, call.idx, call.reg)
        /\ (AccessRan /\ call.idx < 8) =>
              /\ VM(machine.registers, machine.locals) =
                    AfterAccess(vm, call.routine, call.idx, Scratch64)
              /\ ~IsStoreRoutine(call.routine) =>
                    machine.x[call.reg] = ArrayOf(vm, call.routine)[call.idx + 1]

\* a store to the local of index 4096 was refused
C24_Witness ==
    /\ AccessDone
    /\ call.routine = "store_vm_local"
    /\ call.idx = 4096
    /\ machine.status = "panic"
    /\ output = <<>>

\* a store to element 7 of the registers has run
AccessStored ==
    /\ AccessRan
    /\ call.routine = "store_vm_register"
    /\ call.idx = 7
    /\ machine.registers[8] = Scratch64

\* ------------------------------------------------- claims: block labels
\* the block the parser holds for a declared label
BlockOfLabel(p, label) == p.blocks[TargetOf(p, label)]

\* the instructions of a block are in the order of their lines
InLineOrder(block) == \A k \in 1..(Len(block) - 1) : block[k].line < block[k + 1].line

\* the label whose declaration comes first in the source
FirstDeclared(code) ==
    CHOOSE label \in DeclaredLabels(code) :
        \A other \in DeclaredLabels(code) :
            DeclarationOf(code, label) <= DeclarationOf(code, other)

\* the source keeps to the grammar and declares every label it refers to
Parseable(code) ==
    WellFormed(code) /\ ReferencedLabels(code) \subseteq DeclaredLabels(code)

\* C25: every line LABEL: at column 0 (label characters A-Z, a-z, 0-9 and _
\* in any position) ends the current block and starts the block LABEL, every
\* indented instruction line is appended to the block started last, and the
\* block declared first is blocks[0].
C25_LabelsStartBlocks ==
    (ParseDone /\ Parseable(call.code)) =>
        /\ call.parser.status = "ok"
        /\ \A label \in DeclaredLabels(call.code) :
              /\ LinesOf(BlockOfLabel(call.parser, label)) = BodyLines(call.code, label)
              /\ InLineOrder(BlockOfLabel(call.parser, label))
        /\ DeclaredLabels(call.code) # {} =>
              TargetOf(call.parser, FirstDeclared(call.code)) = 1

\* ------------------------------------------------ claims: a second compile
SecondCompile == call.fn = "compile"

\* C26: compiling the same Program a second time, its blocks' jumps_to_here
\* still holding the first compile's entries, ends with a code buffer equal
\* byte for byte to the first compile's and with the same block offsets.
C26_CompileRepeatable ==
    SecondCompile =>
        /\ pc.phase # "panic"
        /\ pc.phase = "compiled" =>
              (output = call.output /\ block_offsets = call.block_offsets)

\* the second compile of a program with branches is over: every site is in
\* the lists twice and was linked twice
C26_Witness ==
    /\ SecondCompile
    /\ pc.phase = "compiled"
    /\ Len(AllSites(program, 1)) >= 8
    /\ output = call.output
    /\ \E b \in 1..Len(program) :
          /\ Len(program[b].jumps_to_here) >= 2
          /\ program[b].jumps_to_here[1] = program[b].jumps_to_here[Len(program[b].jumps_to_here)]

\* ------------------------------------------------------ claims: the packer
RECURSIVE SumBits(_)
SumBits(g) == IF Len(g) = 0 THEN 0 ELSE g[1].bits + SumBits(Tail(g))

\* the fields laid side by side, the first field's bits first
RECURSIVE Concat(_)
Concat(g) == IF Len(g) = 0 THEN <<>> ELSE IntBits(g[1].value, g[1].bits) \o Concat(Tail(g))

FieldFits(f) == f.bits >= 31 \/ f.value < Pow2(f.bits)

ValidFieldList(g) ==
    /\ \A k \in 1..Len(g) : g[k].bits \in 1..32 /\ FieldFits(g[k])
    /\ SumBits(g) = 32

\* write asks for field k when it is the first, or when fewer than 32 bits
\* had been written before field k - 1
Consumed(g, k) == k <= Len(g) /\ (k = 1 \/ SumBits(SubSeq(g, 1, k - 2)) < 32)

WriteDone == call.fn = "write" /\ call.done

\* C9: for every field list whose widths (each 1..32) sum to 32 and whose
\* values fit their widths, write returns the word that is the fields
\* concatenated, the first field in the top bits.
C9_WriteConcatenates ==
    (WriteDone /\ ValidFieldList(call.generator)) =>
        /\ call.result.status = "ok"
        /\ WordBits(call.result.value) = Concat(call.generator)

\* a field list is invalid when a field write consumes does not fit its
\* width, or when the widths do not sum to 32
InvalidFieldList(g) ==
    \/ \E k \in 1..Len(g) : Consumed(g, k) /\ ~FieldFits(g[k])
    \/ SumBits(g) # 32

\* C10: write returns no word for an invalid field list: not when a field it
\* consumes has value >= 2^bits, and not when the field widths sum to
\* anything other than 32 (too few bits, or too many, fields given after bit
\* 32 is reached included).
C10_WriteRejectsInvalid ==
    (WriteDone /\ InvalidFieldList(call.generator)) => call.result.status # "ok"

====
